---- MODULE Spec2Model ----
(***************************************************************************)
(* Tiered activation engine of chahua-license-system:                      *)
(* LicenseGenerator.verifyLicense (lib/license-generator.js) reconciling a *)
(* decoded license against the persisted activation state file; the        *)
(* envelope codec (encryptLicense, decryptLicense, saveLicenseFile); the   *)
(* caching checks in front of them (license-guard.js, LicenseManager).     *)
(*                                                                         *)
(* Time is counted in ticks since the epoch, TicksPerDay ticks to a day.   *)
(* Day arithmetic (Date.setDate) is taken in a zone without DST shifts.    *)
(* A falsy JavaScript value (undefined, null, 0, '') of a field is written *)
(* 0 for numbers and "" for strings: the code only tests such fields for   *)
(* truthiness.                                                             *)
(***************************************************************************)
EXTENDS Integers, Sequences, FiniteSets, TLC

----------------------------------------------------------------------------
(* Bounds of the model *)

TicksPerDay == 2

MaxDays == 125

MaxNow == MaxDays * TicksPerDay

\* Time between two calls: a month and one tick, or a quarter to the tick.
Elapse == {30 * TicksPerDay + 1, 90 * TicksPerDay}

----------------------------------------------------------------------------
(* Dates *)

\* The time value of an Invalid Date (NaN).
InvalidDate == -1

\* tierActivationDate: null
NullDate == -2

\* Largest number of days from the epoch a Date can hold (8.64e15 ms).
DateMaxDays == 100000000

DateMax == DateMaxDays * TicksPerDay

\* A duration that no Date started in the model's clock range can hold.
HugeDays == DateMaxDays + 1

\* new Date(x) / new Date(x || 0) for a stored ISO string or null
NewDate(x) == IF x = NullDate THEN 0 ELSE x

\* d.setDate(d.getDate() + days)
SetDatePlus(t, days) ==
    IF t = InvalidDate THEN InvalidDate
    ELSE LET r == t + days * TicksPerDay
         IN  IF r > DateMax \/ r < 0 - DateMax THEN InvalidDate ELSE r

\* a > b on Dates: false whenever either side is an Invalid Date
DateGreater(a, b) == a # InvalidDate /\ b # InvalidDate /\ a > b

\* Rounding down where the code rounds up.
CeilDays_floor(ticks) == ticks \div TicksPerDay

\* Math.ceil(ms / (1000 * 3600 * 24))
CeilDays(ticks) == 0 - ((0 - ticks) \div TicksPerDay)

----------------------------------------------------------------------------
(* Machine identity *)

MachineFull == "fp-this-machine"

OtherFull == "fp-other-machine"

getMachineFingerprint == [short |-> "fp-this", full |-> MachineFull]

\* What the os module answers on a host: a field the host cannot supply is
\* Unavailable (os.userInfo() and os.hostname() throw a SystemError then),
\* os.cpus() may be empty, os.totalmem() may be 0.
Unavailable == "<unavailable>"

Host(platform, username, hostname, arch, cpus, totalmem) ==
    [platform |-> platform, username |-> username, hostname |-> hostname,
     arch |-> arch, cpus |-> cpus, totalmem |-> totalmem]

Hosts ==
    {Host(pl, u, h, a, c, m) :
        pl \in {"linux", "win32"}, u \in {"user", Unavailable},
        h \in {"host", Unavailable}, a \in {"x64", "arm64"},
        c \in {<<>>, <<"">>, <<"cpu-model">>}, m \in {0, 8}}

\* The 64 hex characters of a digest, in four stretches of 16.
HexDigest(raw) == [n \in 1..4 |-> [sha256 |-> raw, part |-> n]]

NoFingerprint == [threw |-> FALSE, error |-> "", short |-> <<>>, full |-> <<>>]

\* getMachineFingerprint() on a host.
fingerprintOf(host) ==
    IF host.username = Unavailable
      THEN [NoFingerprint EXCEPT !.threw = TRUE, !.error = "uv_os_get_passwd returned ENOENT"]
    ELSE IF host.hostname = Unavailable
      THEN [NoFingerprint EXCEPT !.threw = TRUE, !.error = "uv_os_gethostname returned ENOSYS"]
    ELSE
      LET cpuInfo == IF host.cpus # <<>> /\ host.cpus[1] # "" THEN host.cpus[1]
                     ELSE "unknown-cpu"
          rawFingerprint == <<host.platform, host.username, host.hostname, host.arch,
                              cpuInfo, host.totalmem>>
          fullFingerprint == HexDigest(rawFingerprint)
      IN  [threw |-> FALSE, error |-> "", short |-> SubSeq(fullFingerprint, 1, 1),
           full |-> fullFingerprint]

----------------------------------------------------------------------------
(* License records and envelopes *)

\* durationDays of the records: missing (0), negative, the tiers on sale, and
\* one beyond the range of Date.
Durations == {0, -7, 7, 30, 90, 120, HugeDays}

\* version: '3.1.0'
CurrentVersion == "3.1.0"

\* A license record. The generators stamp the current version on the records
\* of type PLUGIN_LICENSE; records of the older types carry an older one.
\* licenseId and generatedAt are those of the first issue.
Lic(ty, p, f, d) ==
    [type |-> ty, pluginId |-> p, fingerprint |-> f, durationDays |-> d,
     version |-> IF ty = "PLUGIN_LICENSE" THEN CurrentVersion ELSE "legacy",
     licenseId |-> "CHDEV-1", generatedAt |-> 0]

\* The same license issued again: generateLicenseId() and new Date() anew.
Reissue(licenseData) ==
    [licenseData EXCEPT !.licenseId = IF @ = "CHDEV-1" THEN "CHDEV-2" ELSE "CHDEV-1",
                        !.generatedAt = IF @ = 0 THEN 45 * TicksPerDay ELSE 0]

Licenses ==
    {Lic("PLUGIN_LICENSE", "p1", "", d) : d \in Durations}
    \cup {Lic("PLUGIN_LICENSE", "p1", f, d) :
            f \in {MachineFull, OtherFull, "UNBOUND"}, d \in {30, 90}}
    \cup {Lic("PLUGIN_LICENSE", "", f, 30) : f \in {"", "UNBOUND"}}
    \cup {Lic(ty, "", "", d) : ty \in {"DEV_LICENSE", ""}, d \in {0, 30}}
    \cup {Lic("DEV_LICENSE", "p1", "", 90)}
    \cup {Reissue(Lic("PLUGIN_LICENSE", "p1", "", 30))}

NoLicense == Lic("", "", "", 0)

\* An envelope as decryptLicense sees it: whether the text decodes to the
\* package JSON, whether the stored hash matches, whether decipher.final
\* accepts the ciphertext, whether the deciphered text is JSON, and the
\* record inside.
Envelope(st, h, pl, r) ==
    [structure |-> st, hashOk |-> h, deciphers |-> pl, plainOk |-> pl, rec |-> r]

\* A ciphertext that deciphers to text JSON.parse rejects.
GarbledEnvelope == [Envelope(TRUE, TRUE, FALSE, NoLicense) EXCEPT !.deciphers = TRUE]

Envelopes ==
    {Envelope(TRUE, TRUE, TRUE, r) : r \in Licenses}
    \cup {Envelope(FALSE, FALSE, FALSE, NoLicense),
          Envelope(TRUE, FALSE, FALSE, NoLicense),
          Envelope(TRUE, TRUE, FALSE, NoLicense),
          GarbledEnvelope}

decryptLicense(env) ==
    IF ~env.structure
      THEN [success |-> FALSE, error |-> "License decryption failed: Unexpected token", data |-> NoLicense]
    ELSE IF ~env.hashOk
      THEN [success |-> FALSE, error |-> "License decryption failed: License integrity check failed", data |-> NoLicense]
    ELSE IF ~env.deciphers
      THEN [success |-> FALSE, error |-> "License decryption failed: bad decrypt", data |-> NoLicense]
    ELSE IF ~env.plainOk
      THEN [success |-> FALSE, error |-> "License decryption failed: Unexpected token", data |-> NoLicense]
    ELSE [success |-> TRUE, error |-> "", data |-> env.rec]

----------------------------------------------------------------------------
(* The activation state file *)

StateFile(e, p, tier, date, plugins, hp) ==
    [exists |-> e, parses |-> p, activeTier |-> tier, tierActivationDate |-> date,
     activatedPlugins |-> plugins, hasPlugins |-> hp]

AbsentFile == StateFile(FALSE, FALSE, 0, NullDate, <<>>, FALSE)

CorruptFile == StateFile(TRUE, FALSE, 0, NullDate, <<>>, FALSE)

\* { activeTier: 0, tierActivationDate: null, activatedPlugins: [] }
EmptyUserState == [activeTier |-> 0, tierActivationDate |-> NullDate,
                   activatedPlugins |-> <<>>, hasPlugins |-> TRUE]

\* fs.existsSync / readFileSync / JSON.parse with the catch that resets
ReadState(sf) ==
    IF ~sf.exists \/ ~sf.parses THEN EmptyUserState
    ELSE [activeTier |-> sf.activeTier, tierActivationDate |-> sf.tierActivationDate,
          activatedPlugins |-> sf.activatedPlugins, hasPlugins |-> sf.hasPlugins]

\* fs.writeFileSync(stateFilePath, JSON.stringify(userState, null, 2))
WriteState(us) ==
    StateFile(TRUE, TRUE, us.activeTier, us.tierActivationDate,
              us.activatedPlugins, us.hasPlugins)

Includes(seq, x) == \E i \in 1..Len(seq) : seq[i] = x

----------------------------------------------------------------------------
(* verifyLicense *)

allowedUpgradeTiers == {90, 120}

\* The binding check left out.
BindingMismatch_skipped(licenseData) == FALSE

BindingMismatch(licenseData) ==
    licenseData.fingerprint # "" /\ licenseData.fingerprint # getMachineFingerprint.full

LegacyPluginId(type) ==
    CASE type = "DEV_LICENSE" -> "com.chahuadev.legacy-dev-plugin"
      [] type = "CUSTOMER_LICENSE" -> "com.chahuadev.legacy-customer-plugin"
      [] type = "CHAHUADEV_DAILY_LICENSE" -> "com.chahuadev.legacy-daily-plugin"
      [] OTHER -> "com.chahuadev.legacy-unknown-plugin"

\* No conversion of the older types.
ConvertLegacy_none(licenseData) == licenseData

ConvertLegacy(licenseData) ==
    IF licenseData.type # "PLUGIN_LICENSE"
      THEN [licenseData EXCEPT !.pluginId = LegacyPluginId(licenseData.type)]
      ELSE licenseData

\* The required-field check forgetting durationDays.
MissingFields_pluginOnly(licenseData) == licenseData.pluginId = ""

MissingFields(licenseData) ==
    licenseData.pluginId = "" \/ licenseData.durationDays = 0

\* tierExpiryDate of the persisted tier
TierExpiryDate(userState) ==
    SetDatePlus(NewDate(userState.tierActivationDate), userState.activeTier)

\* The tier counted as over from the deadline on.
TierExpired_fromDeadline(userState, t) ==
    LET e == TierExpiryDate(userState) IN e # InvalidDate /\ t >= e

\* The expiry comparison written the wrong way round.
TierExpired_reversed(userState, t) == DateGreater(TierExpiryDate(userState), t)

TierExpired(userState, t) == DateGreater(t, TierExpiryDate(userState))

\* Only the longest duration upgrades.
canAutoUpgrade_only120(newLicenseDuration, currentTierDuration) ==
    newLicenseDuration \in {120} /\ newLicenseDuration > currentTierDuration

\* The comparison with the current tier left out.
canAutoUpgrade_noCompare(newLicenseDuration, currentTierDuration) ==
    newLicenseDuration \in allowedUpgradeTiers

canAutoUpgrade(newLicenseDuration, currentTierDuration) ==
    newLicenseDuration \in allowedUpgradeTiers /\ newLicenseDuration > currentTierDuration

\* A new tier starting from a fresh state object.
Adopt_fresh(userState, newLicenseDuration, t) ==
    [userState EXCEPT !.activeTier = newLicenseDuration, !.tierActivationDate = t,
                      !.activatedPlugins = <<>>]

Adopt(userState, newLicenseDuration, t) ==
    [userState EXCEPT !.activeTier = newLicenseDuration, !.tierActivationDate = t]

\* An expired tier is kept: its license counts as used up.
TierLogic_keepsExpired(userState, newLicenseDuration, t) ==
    IF userState.activeTier = 0 THEN Adopt(userState, newLicenseDuration, t)
    ELSE IF TierExpired(userState, t) THEN userState
    ELSE IF canAutoUpgrade(newLicenseDuration, userState.activeTier)
           THEN Adopt(userState, newLicenseDuration, t)
    ELSE userState

TierLogic(userState, newLicenseDuration, t) ==
    IF userState.activeTier = 0 THEN Adopt(userState, newLicenseDuration, t)
    ELSE IF TierExpired(userState, t) THEN Adopt(userState, newLicenseDuration, t)
    ELSE IF canAutoUpgrade(newLicenseDuration, userState.activeTier)
           THEN Adopt(userState, newLicenseDuration, t)
    ELSE userState

\* The push without the includes test.
AddPlugin_always(userState, pluginId) ==
    [userState EXCEPT !.activatedPlugins = Append(@, pluginId)]

AddPlugin(userState, pluginId) ==
    IF ~Includes(userState.activatedPlugins, pluginId)
      THEN [userState EXCEPT !.activatedPlugins = Append(@, pluginId)]
      ELSE userState

NoData == [type |-> "", pluginId |-> "", fingerprint |-> "", durationDays |-> 0,
           version |-> "", licenseId |-> "", generatedAt |-> 0, status |-> "",
           daysRemaining |-> 0, currentTier |-> 0, activatedPlugins |-> <<>>,
           expiresAt |-> NullDate, tierActivationDate |-> NullDate]

Failure(msg, w) == [success |-> FALSE, error |-> msg, writes |-> w, data |-> NoData]

ErrBinding == "License is bound to a different machine."

ErrIncomplete == "Invalid or incomplete license key."

ErrNoPlugins == "Cannot read properties of undefined (reading 'includes')"

ErrInvalidTime == "Invalid time value"

\* Steps 6-8 and the return: register the plugin, write the file, compute
\* the remaining days; toISOString throws on an Invalid Date, after the write.
Persist(licenseData, userState1, sf, t) ==
    IF ~userState1.hasPlugins THEN [file |-> sf, res |-> Failure(ErrNoPlugins, 0)]
    ELSE
      LET userState == AddPlugin(userState1, licenseData.pluginId)
          written == WriteState(userState)
          currentTierExpiryDate ==
              SetDatePlus(NewDate(userState.tierActivationDate), userState.activeTier)
          daysRemaining == CeilDays(currentTierExpiryDate - t)
      IN  IF currentTierExpiryDate = InvalidDate
            THEN [file |-> written, res |-> Failure(ErrInvalidTime, 1)]
            ELSE [file |-> written,
                  res |-> [success |-> TRUE, error |-> "", writes |-> 1,
                           data |-> [type |-> licenseData.type,
                                     pluginId |-> licenseData.pluginId,
                                     fingerprint |-> licenseData.fingerprint,
                                     durationDays |-> licenseData.durationDays,
                                     version |-> licenseData.version,
                                     licenseId |-> licenseData.licenseId,
                                     generatedAt |-> licenseData.generatedAt,
                                     status |-> "License accepted. Current tier: "
                                                \o ToString(userState.activeTier)
                                                \o " days.",
                                     daysRemaining |-> IF daysRemaining > 0 THEN daysRemaining ELSE 0,
                                     currentTier |-> userState.activeTier,
                                     activatedPlugins |-> userState.activatedPlugins,
                                     expiresAt |-> currentTierExpiryDate,
                                     tierActivationDate |-> userState.tierActivationDate]]]

verifyLicense(env, sf, t) ==
    LET decryptResult == decryptLicense(env)
    IN  IF ~decryptResult.success
          THEN [file |-> sf, res |-> Failure(decryptResult.error, 0)]
        ELSE
          LET userState0 == ReadState(sf)
          IN  IF BindingMismatch(decryptResult.data)
                THEN [file |-> sf, res |-> Failure(ErrBinding, 0)]
              ELSE
                LET licenseData == ConvertLegacy(decryptResult.data)
                IN  IF MissingFields(licenseData)
                      THEN [file |-> sf, res |-> Failure(ErrIncomplete, 0)]
                      ELSE Persist(licenseData,
                                   TierLogic(userState0, licenseData.durationDays, t),
                                   sf, t)

\* How many times a verifyLicense call reads the state file: step 2 comes
\* right after the decoding, before the binding check.
StateFileReads(env, sf) ==
    IF decryptLicense(env).success /\ sf.exists THEN 1 ELSE 0

----------------------------------------------------------------------------
(* verifyLicense calls in flight in one process. A call runs from one await *)
(* to the next without yielding; the stretches of verifyLicense are the     *)
(* decoding (up to the await of line 610), the reading of the state file    *)
(* (lines 616-626) and the reconciliation with its write (lines 629-723).  *)

MaxCalls == 2

CallIds == 1..MaxCalls

\* A call: the stretch it runs next ("idle" before it is made, "done" after
\* it has returned), its argument, and the state file as it read it.
Call(pc, env, seen) == [pc |-> pc, env |-> env, seen |-> seen]

IdleCall == Call("idle", Envelope(FALSE, FALSE, FALSE, NoLicense), AbsentFile)

\* The process while calls are in flight: the calls, the state file, the
\* calls that have read the state file and not yet finished with it, and
\* whether a call read or wrote while another was in that position.
Process(calls, file, open, interleaved) ==
    [calls |-> calls, file |-> file, open |-> open, interleaved |-> interleaved]

\* The function yielding once more, between its read and its write.
AwaitAfter_read(stretch) == stretch \in {"decrypt", "read"}

\* await this.decryptLicense(encryptedLicenseKey) is the only await.
AwaitAfter(stretch) == stretch = "decrypt"

\* One stretch of call i at time t.
RunStretch(p, i, t) ==
    LET call == p.calls[i]
        touched == p.interleaved \/ (p.open \ {i} # {})
    IN  CASE call.pc = "decrypt" ->
               [p EXCEPT !.calls[i].pc = "read"]
          [] call.pc = "read" ->
               IF ~decryptLicense(call.env).success
                 THEN [p EXCEPT !.calls[i].pc = "done"]
                 ELSE [p EXCEPT !.calls[i].pc = "write", !.calls[i].seen = p.file,
                                !.open = @ \cup {i}, !.interleaved = touched]
          [] call.pc = "write" ->
               LET out == verifyLicense(call.env, call.seen, t)
               IN  [p EXCEPT !.calls[i].pc = "done",
                             !.file = IF out.res.writes = 1 THEN out.file ELSE @,
                             !.open = @ \ {i},
                             !.interleaved = IF out.res.writes = 1 THEN touched ELSE @]
          [] OTHER -> p

RECURSIVE RunToAwait(_, _, _)
\* Call i runs until it yields or returns.
RunToAwait(p, i, t) ==
    LET stretch == p.calls[i].pc
        q == RunStretch(p, i, t)
    IN  IF q.calls[i].pc = "done" \/ AwaitAfter(stretch) THEN q
        ELSE RunToAwait(q, i, t)

RECURSIVE RunInOrder(_, _, _)
\* The state file after verifyLicense was called with each envelope of a
\* sequence, one call after another.
RunInOrder(file, envs, t) ==
    IF envs = <<>> THEN file
    ELSE RunInOrder(verifyLicense(Head(envs), file, t).file, Tail(envs), t)

\* The orders in which a set of calls can be run one after another.
Orders(ids) ==
    {o \in [1..Cardinality(ids) -> ids] : \A a, b \in DOMAIN o : o[a] = o[b] => a = b}

\* Envelopes presented by calls in flight.
FlightEnvelopes ==
    {Envelope(TRUE, TRUE, TRUE, Lic("PLUGIN_LICENSE", "p1", "", d)) : d \in {30, 90}}
    \cup {Envelope(TRUE, TRUE, TRUE, Lic("DEV_LICENSE", "", "", 30)),
          Envelope(TRUE, TRUE, TRUE, Lic("PLUGIN_LICENSE", "p1", OtherFull, 30)),
          Envelope(TRUE, FALSE, FALSE, NoLicense)}

----------------------------------------------------------------------------
(* The envelope codec: encryptLicense, saveLicenseFile and the reading half *)
(* of decryptLicense. Hex and base64 texts are sequences of symbols; the    *)
(* hash, the key derivation and the cipher are ideal: two inputs give the   *)
(* same output only when they are the same input.                           *)

NoJSON == <<"", "", "", 0, "", 0>>

\* JSON.stringify(licenseData): the values in key order.
ToJSON(licenseData) ==
    <<licenseData.type, licenseData.pluginId, licenseData.fingerprint,
      licenseData.durationDays, licenseData.licenseId, licenseData.generatedAt>>

\* JSON.parse(decrypted)
FromJSON(jsonData) ==
    [Lic(jsonData[1], jsonData[2], jsonData[3], jsonData[4])
       EXCEPT !.licenseId = jsonData[5], !.generatedAt = jsonData[6]]

\* A stretch of hex text: of the salt (kind "salt", the n-th half of salt id),
\* of a ciphertext (kind "ct", the n-th block of jsonData under key and iv),
\* or characters that are no hex digits (kind "junk"). upper: spelled with
\* the letters A-F where toString('hex') writes a-f.
Sym(kind, id, jsonData, key, iv, n, upper) ==
    [kind |-> kind, id |-> id, json |-> jsonData, key |-> key, iv |-> iv,
     n |-> n, upper |-> upper]

SaltSym(id, n) == Sym("salt", id, NoJSON, <<>>, 0, n, FALSE)

Junk == Sym("junk", 0, NoJSON, <<>>, 0, 0, FALSE)

\* crypto.randomBytes(32), written in hex: one of a few salts.
SaltIds == {1, 2}

\* crypto.randomBytes(16)
IvIds == {1, 2}

randomSalt(id) == <<SaltSym(id, 1), SaltSym(id, 2)>>

IsHex(sym) == sym.kind # "junk"

\* Buffer.from(text, 'hex'): case-blind, and cut at the first character that
\* is no hex digit.
FromHex(text) ==
    LET stops == {k \in 1..Len(text) : ~IsHex(text[k])}
        len == IF stops = {} THEN Len(text)
               ELSE (CHOOSE k \in stops : \A m \in stops : k <= m) - 1
    IN  [k \in 1..len |-> [text[k] EXCEPT !.upper = FALSE]]

\* buffer.toString('hex'): lower case.
ToHex(bytes) == bytes

\* crypto.createHash('sha256').update(encrypted + saltHex).digest('hex')
sha256(encrypted, saltHex) == [digest |-> encrypted \o saltHex]

\* crypto.pbkdf2Sync(this.encryptionKey, salt, rounds, 32, 'sha512')
pbkdf2Sync(salt) == salt

\* createCipheriv('aes-256-cbc', key, iv): update + final, in hex.
Cipher(jsonData, derivedKey, iv) ==
    <<Sym("ct", 0, jsonData, derivedKey, iv, 1, FALSE),
      Sym("ct", 0, jsonData, derivedKey, iv, 2, FALSE)>>

\* createDecipheriv('aes-256-cbc', key, iv): update + final + JSON.parse.
\* Another ciphertext or key ends in 'bad decrypt'; the ciphertext under its
\* key with another iv passes final (the padding is in the last block) and
\* comes out with its first block garbled, which is no JSON.
Decipher(encrypted, derivedKey, iv) ==
    LET bytes == FromHex(encrypted)
        whole == /\ Len(bytes) = 2 /\ Len(encrypted) = 2
                 /\ bytes[1].kind = "ct" /\ bytes[1].n = 1
                 /\ bytes[2] = [bytes[1] EXCEPT !.n = 2]
                 /\ bytes[1].key = derivedKey
    IN  IF whole /\ bytes[1].iv = iv
          THEN [final |-> TRUE, ok |-> TRUE, json |-> bytes[1].json]
          ELSE [final |-> whole, ok |-> FALSE, json |-> NoJSON]

\* encryptedPackage: s, i, d and h (v, p and c are never read back).
Package(s, i, d, h) == [s |-> s, i |-> i, d |-> d, h |-> h]

NoPackage == Package(<<>>, 0, <<>>, [digest |-> <<>>])

\* A stretch of the license text: 32 base64 characters of a package, a line
\* break, or one of the two marker lines.
Tok(t, pkg, n) == [t |-> t, pkg |-> pkg, n |-> n]

NL == Tok("\n", NoPackage, 0)

Header == Tok("-----BEGIN CHAHUA LICENSE-----", NoPackage, 0)

Footer == Tok("-----END CHAHUA LICENSE-----", NoPackage, 0)

\* Buffer.from(JSON.stringify(encryptedPackage)).toString('base64')
Base64(pkg) == <<Tok("b64", pkg, 1), Tok("b64", pkg, 2), Tok("b64", pkg, 3)>>

encryptLicense(licenseData, saltId, ivId) ==
    LET jsonData == ToJSON(licenseData)
        salt == randomSalt(saltId)
        derivedKey == pbkdf2Sync(salt)
        encrypted == Cipher(jsonData, derivedKey, ivId)
    IN  Base64(Package(ToHex(salt), ivId, encrypted, sha256(encrypted, ToHex(salt))))

RECURSIVE WrapLines(_)
\* encryptedLicense.match(/.{1,64}/g).join('\n'): two stretches to a line.
WrapLines(text) ==
    IF Len(text) <= 2 THEN text
    ELSE SubSeq(text, 1, 2) \o <<NL>> \o WrapLines(SubSeq(text, 3, Len(text)))

\* The text saveLicenseFile writes.
saveLicenseFile(encryptedLicense) ==
    <<Header, NL>> \o WrapLines(encryptedLicense) \o <<NL, Footer>>

\* string.replace(tok, ''): the first occurrence only.
RemoveFirst(text, tok) ==
    LET at == {k \in 1..Len(text) : text[k] = tok}
    IN  IF at = {} THEN text
        ELSE LET k == CHOOSE k \in at : \A m \in at : k <= m
             IN  SubSeq(text, 1, k - 1) \o SubSeq(text, k + 1, Len(text))

\* string.replace(/\n/g, '')
RemoveAll(text, tok) == SelectSeq(text, LAMBDA x : x # tok)

\* The footer line is left in the text.
StripMarkers_keepsFooter(encryptedLicenseKey) ==
    RemoveAll(RemoveFirst(encryptedLicenseKey, Header), NL)

\* decryptLicense, step 1
StripMarkers(encryptedLicenseKey) ==
    RemoveAll(RemoveFirst(RemoveFirst(encryptedLicenseKey, Header), Footer), NL)

\* decryptLicense, step 2: Buffer.from(base64Data, 'base64') skips white
\* space; JSON.parse throws unless the characters are those of one package.
ParsePackage(base64Data) ==
    LET data == RemoveAll(base64Data, NL)
    IN  IF /\ Len(data) = 3
           /\ \A n \in 1..3 : data[n] = Tok("b64", data[1].pkg, n)
          THEN [ok |-> TRUE, pkg |-> data[1].pkg]
          ELSE [ok |-> FALSE, pkg |-> NoPackage]

\* decryptLicense, steps 1 to 8, as the conditions its control flow tests.
ReadEnvelope(encryptedLicenseKey) ==
    LET parsed == ParsePackage(StripMarkers(encryptedLicenseKey))
    IN  IF ~parsed.ok THEN Envelope(FALSE, FALSE, FALSE, NoLicense)
        ELSE
          LET salt == FromHex(parsed.pkg.s)
              encrypted == parsed.pkg.d
              calculatedHash == sha256(encrypted, ToHex(salt))
              plain == Decipher(encrypted, pbkdf2Sync(salt), parsed.pkg.i)
          IN  [Envelope(TRUE, calculatedHash = parsed.pkg.h, plain.ok,
                        IF plain.ok THEN FromJSON(plain.json) ELSE NoLicense)
                  EXCEPT !.deciphers = plain.final]

\* decryptLicense on a license text.
decryptLicenseText(encryptedLicenseKey) == decryptLicense(ReadEnvelope(encryptedLicenseKey))

\* Changes made to an encoded package without recomputing its digest: the
\* salt respelled in upper case, characters appended to the salt, another
\* salt, the ciphertext respelled, another ciphertext, the first half of the
\* salt moved to the end of the ciphertext; the digest itself changed; the
\* text cut short; another iv.
SaltTampers == {"saltCase", "saltJunk", "saltSwap"}

CipherTampers == {"cipherCase", "cipherSwap"}

TamperKinds == SaltTampers \cup CipherTampers \cup {"shift", "digest", "truncate", "ivSwap"}

TamperPackage(pkg, kind) ==
    CASE kind = "saltCase" -> [pkg EXCEPT !.s[1].upper = TRUE]
      [] kind = "saltJunk" -> [pkg EXCEPT !.s = @ \o <<Junk>>]
      [] kind = "saltSwap" -> [pkg EXCEPT !.s = randomSalt(3 - @[1].id)]
      [] kind = "cipherCase" -> [pkg EXCEPT !.d[1].upper = TRUE]
      [] kind = "cipherSwap" ->
             [pkg EXCEPT !.d = Cipher(<<"PLUGIN_LICENSE", "p1", "", 120, "CHDEV-1", 0>>,
                                      @[1].key, @[1].iv)]
      [] kind = "shift" -> [pkg EXCEPT !.d = @ \o <<pkg.s[1]>>, !.s = Tail(@)]
      [] kind = "digest" -> [pkg EXCEPT !.h = [digest |-> <<>>]]
      [] kind = "ivSwap" -> [pkg EXCEPT !.i = 3 - @]
      [] OTHER -> pkg

TamperText(text, kind) ==
    IF kind = "truncate" THEN RemoveAll(text, Tok("b64", ParsePackage(StripMarkers(text)).pkg, 3))
    ELSE [k \in DOMAIN text |->
             IF text[k].t = "b64" THEN [text[k] EXCEPT !.pkg = TamperPackage(@, kind)]
             ELSE text[k]]

\* Records put through the codec.
CodecRecords ==
    {Lic("PLUGIN_LICENSE", "p1", "", 30), Lic("PLUGIN_LICENSE", "", "UNBOUND", 30),
     Lic("DEV_LICENSE", "", "", 30)}

----------------------------------------------------------------------------
(* The generator's operations: the record each of them encrypts at time t, *)
(* or no record where the operation refuses its arguments.                 *)

Issued(licenseData, t) ==
    [success |-> TRUE, licenseData |-> [licenseData EXCEPT !.generatedAt = t]]

NotIssued == [success |-> FALSE, licenseData |-> NoLicense]

\* opts.fingerprint || null; days a number > 0; a non-empty pluginId.
generateDailyLicense(days, pluginId, fingerprint, t) ==
    IF days <= 0 \/ pluginId = "" THEN NotIssued
    ELSE Issued(Lic("PLUGIN_LICENSE", pluginId, fingerprint, days), t)

generate30DayLicense(t) ==
    generateDailyLicense(30, "com.chahuadev.standard-plugin", "", t)

generate60DayLicense(t) ==
    generateDailyLicense(60, "com.chahuadev.premium-plugin", "", t)

generate90DayLicense(t) ==
    generateDailyLicense(90, "com.chahuadev.professional-plugin", "", t)

generate120DayLicense(t) ==
    generateDailyLicense(120, "com.chahuadev.enterprise-plugin", "", t)

generateDevLicense(t) ==
    Issued(Lic("PLUGIN_LICENSE", "com.chahuadev.dev-plugin", "", 7), t)

generateCustomerLicense(fingerprint, t) ==
    Issued(Lic("PLUGIN_LICENSE", "com.chahuadev.customer-plugin", fingerprint, 30), t)

\* The record of an order: fingerprint 'UNBOUND', no pluginId, durationDays
\* as the order gives it.
generateForOrder(durationDays, t) ==
    Issued(Lic("PLUGIN_LICENSE", "", "UNBOUND", durationDays), t)

\* Arguments of generateDailyLicense, fingerprint options (none, this
\* machine's full fingerprint, another machine's) and durations of orders.
DailyDays == {0, 30, HugeDays}

DailyPluginIds == {"", "p1"}

FingerprintOptions == {"", MachineFull, OtherFull}

OrderDurations == {30, -7}

----------------------------------------------------------------------------
(* Legacy guard (license-guard.js): ensureLicensed, installLicenseFromContent *)

APP_PLUGIN_ID == "com.chahua.dbmanager"

\* The cache window, 30 * 60 * 1000 ms, is one 48th of a day.
WindowsPerDay == 48

\* let cache = null: the slot is empty, or holds the data of a result.
NullCache == [set |-> FALSE, data |-> NoData]

Cached(d) == [set |-> TRUE, data |-> d]

\* tools/license.key: absent, or holding the text last written to it.
NoLicenseFile == [exists |-> FALSE, content |-> Envelope(FALSE, FALSE, FALSE, NoLicense)]

LicenseFileOf(content) == [exists |-> TRUE, content |-> content]

ErrKeyNotFound == "key file not found: tools/license.key"

ErrKeyInvalid == "key is not valid"

ErrKeyExpired == "key has expired"

\* A window that is never open.
CacheFresh_never(c, lc, t) == FALSE

\* cache && (now - lastCheck) < 30 * 60 * 1000
CacheFresh(c, lc, t) == c.set /\ (t - lc) * WindowsPerDay < TicksPerDay

\* No expiry test.
KeyExpired_never(d) == FALSE

\* (d.daysRemaining ?? 0) <= 0
KeyExpired(d) == d.daysRemaining <= 0

\* result.error.includes('different machine')
IncludesDifferentMachine(error) == error = ErrBinding

\* The term counted from the day the license was generated.
UnboundData_sinceIssue(licenseData, t) ==
    LET days == IF licenseData.durationDays # 0 THEN licenseData.durationDays ELSE 90
        expiresAt == SetDatePlus(licenseData.generatedAt, days)
    IN  [type |-> licenseData.type,
         pluginId |-> IF licenseData.pluginId # "" THEN licenseData.pluginId
                      ELSE APP_PLUGIN_ID,
         fingerprint |-> licenseData.fingerprint,
         durationDays |-> licenseData.durationDays,
         version |-> licenseData.version,
         licenseId |-> licenseData.licenseId,
         generatedAt |-> licenseData.generatedAt,
         status |-> "UNBOUND license active",
         daysRemaining |-> CeilDays(expiresAt - t),
         currentTier |-> days,
         activatedPlugins |-> <<>>,
         expiresAt |-> expiresAt,
         tierActivationDate |-> NullDate]

\* mockResult.data of the UNBOUND bypass; activatedPlugins and
\* tierActivationDate are undefined there.
UnboundData(licenseData, t) ==
    LET days == IF licenseData.durationDays # 0 THEN licenseData.durationDays ELSE 90
    IN  [type |-> licenseData.type,
         pluginId |-> IF licenseData.pluginId # "" THEN licenseData.pluginId
                      ELSE APP_PLUGIN_ID,
         fingerprint |-> licenseData.fingerprint,
         durationDays |-> licenseData.durationDays,
         version |-> licenseData.version,
         licenseId |-> licenseData.licenseId,
         generatedAt |-> licenseData.generatedAt,
         status |-> "UNBOUND license active",
         daysRemaining |-> days,
         currentTier |-> days,
         activatedPlugins |-> <<>>,
         expiresAt |-> SetDatePlus(t, days),
         tierActivationDate |-> NullDate]

\* What one guard call leaves behind and hands back: the cache slot and its
\* timestamp, the state file, the license file, whether it threw and with
\* which message, the value returned, whether ensureLicensed answered from the
\* cache, and how many times the license file was read.
Outcome(c, lc, sf, lf, threw, error, value, fromCache, reads) ==
    [cache |-> c, lastCheck |-> lc, file |-> sf, licenseFile |-> lf,
     threw |-> threw, error |-> error, value |-> value,
     fromCache |-> fromCache, reads |-> reads]

\* A product identifier other than APP_PLUGIN_ID refused.
ensureLicensed_enforcesPluginId(c, lc, lf, sf, t) ==
    IF CacheFresh(c, lc, t)
      THEN Outcome(c, lc, sf, lf, FALSE, "", c.data, TRUE, 0)
    ELSE IF ~lf.exists
      THEN Outcome(c, lc, sf, lf, TRUE, ErrKeyNotFound, NoData, FALSE, 0)
    ELSE
      LET out == verifyLicense(lf.content, sf, t)
          result == out.res
          decryptResult == decryptLicense(lf.content)
      IN  IF /\ ~result.success /\ IncludesDifferentMachine(result.error)
             /\ decryptResult.success /\ decryptResult.data.fingerprint = "UNBOUND"
            THEN LET d == UnboundData(decryptResult.data, t)
                 IN  IF d.expiresAt = InvalidDate
                       THEN Outcome(c, lc, out.file, lf, TRUE, ErrInvalidTime, NoData, FALSE, 1)
                       ELSE Outcome(Cached(d), t, out.file, lf, FALSE, "", d, FALSE, 1)
          ELSE IF ~result.success
            THEN Outcome(c, lc, out.file, lf, TRUE,
                         IF result.error # "" THEN result.error ELSE ErrKeyInvalid,
                         NoData, FALSE, 1)
          ELSE IF result.data.pluginId # APP_PLUGIN_ID
            THEN Outcome(c, lc, out.file, lf, TRUE, ErrKeyInvalid, NoData, FALSE, 1)
          ELSE IF KeyExpired(result.data)
            THEN Outcome(c, lc, out.file, lf, TRUE, ErrKeyExpired, NoData, FALSE, 1)
          ELSE Outcome(Cached(result.data), t, out.file, lf, FALSE, "", result.data, FALSE, 1)

\* The failing branches store the result as the successful ones do.
ensureLicensed_cachesFailure(c, lc, lf, sf, t) ==
    IF CacheFresh(c, lc, t)
      THEN Outcome(c, lc, sf, lf, FALSE, "", c.data, TRUE, 0)
    ELSE IF ~lf.exists
      THEN Outcome(Cached(NoData), t, sf, lf, TRUE, ErrKeyNotFound, NoData, FALSE, 0)
    ELSE
      LET out == verifyLicense(lf.content, sf, t)
      IN  IF ~out.res.success
            THEN Outcome(Cached(NoData), t, out.file, lf, TRUE, out.res.error, NoData, FALSE, 1)
          ELSE IF out.res.data.daysRemaining <= 0
            THEN Outcome(Cached(out.res.data), t, out.file, lf, TRUE, ErrKeyExpired, NoData, FALSE, 1)
          ELSE Outcome(Cached(out.res.data), t, out.file, lf, FALSE, "", out.res.data, FALSE, 1)

ensureLicensed(c, lc, lf, sf, t) ==
    IF CacheFresh(c, lc, t)
      THEN Outcome(c, lc, sf, lf, FALSE, "", c.data, TRUE, 0)
    ELSE IF ~lf.exists
      THEN Outcome(c, lc, sf, lf, TRUE, ErrKeyNotFound, NoData, FALSE, 0)
    ELSE
      LET out == verifyLicense(lf.content, sf, t)
          result == out.res
          decryptResult == decryptLicense(lf.content)
      IN  IF /\ ~result.success /\ IncludesDifferentMachine(result.error)
             /\ decryptResult.success /\ decryptResult.data.fingerprint = "UNBOUND"
            THEN LET d == UnboundData(decryptResult.data, t)
                 IN  IF d.expiresAt = InvalidDate
                       THEN Outcome(c, lc, out.file, lf, TRUE, ErrInvalidTime, NoData, FALSE, 1)
                       ELSE Outcome(Cached(d), t, out.file, lf, FALSE, "", d, FALSE, 1)
          ELSE IF ~result.success
            THEN Outcome(c, lc, out.file, lf, TRUE,
                         IF result.error # "" THEN result.error ELSE ErrKeyInvalid,
                         NoData, FALSE, 1)
          ELSE IF KeyExpired(result.data)
            THEN Outcome(c, lc, out.file, lf, TRUE, ErrKeyExpired, NoData, FALSE, 1)
          ELSE Outcome(Cached(result.data), t, out.file, lf, FALSE, "", result.data, FALSE, 1)

\* The text is written only when it decodes.
copyContentToRoot_ifValid(licenseContent) ==
    IF decryptLicense(licenseContent).success
      THEN [exists |-> TRUE, content |-> licenseContent]
      ELSE [exists |-> FALSE, content |-> Envelope(FALSE, FALSE, FALSE, NoLicense)]

\* copyContentToRoot: fs.writeFileSync(getLicensePath(), licenseContent)
copyContentToRoot(licenseContent) == LicenseFileOf(licenseContent)

\* copyContentToRoot at a license location that may refuse the write (the
\* tools folder of an installed application, a missing folder): writeFileSync
\* throws, the catch keeps the exception in, and the file is as it was.
copyContentToRootAt(lf, licenseContent, writable) ==
    IF writable THEN copyContentToRoot(licenseContent) ELSE lf

\* installLicenseFromContent: check, copy, re-check; check.data is returned.
\* What copyContentToRoot returns is not looked at.
installLicenseFromContent(licenseContent, c, lc, lf, sf, t, writable) ==
    LET check == verifyLicense(licenseContent, sf, t)
    IN  IF ~check.res.success
          THEN Outcome(c, lc, check.file, lf, TRUE,
                       IF check.res.error # "" THEN check.res.error ELSE ErrKeyInvalid,
                       NoData, FALSE, 0)
        ELSE
          LET e == ensureLicensed(c, lc,
                                  copyContentToRootAt(lf, licenseContent, writable),
                                  check.file, t)
          IN  IF e.threw THEN e
              ELSE [e EXCEPT !.value = check.res.data]

----------------------------------------------------------------------------
(* LicenseManager (license-manager.js) over LicenseValidator                *)
(* (license-validator.js). The validator reaches the license text through   *)
(* static helpers of LicenseGenerator (decryptLicense, getMachineFingerprint,*)
(* loadLicense, saveLicense) that the class under lib/ does not define; they *)
(* are taken as the README describes them.                                   *)

\* A license text in the manager's format, as scripts/quick-license.js issues
\* it: whether it decodes, and the fields the validator reads.
QuickLicense(ok, ty, exp, fp) ==
    [decodes |-> ok, licenseType |-> ty, expiresAt |-> exp, machineFingerprint |-> fp]

NoQuickLicense == QuickLicense(FALSE, "", NullDate, "")

QuickLicenses ==
    {QuickLicense(TRUE, "UNBOUND", e * TicksPerDay, "") : e \in {45, 100}}
    \cup {QuickLicense(TRUE, "CUSTOMER", 100 * TicksPerDay, f) : f \in {MachineFull, OtherFull}}
    \cup {NoQuickLicense}

\* static LicenseGenerator.decryptLicense(licenseContent): the record, or an
\* exception.
staticDecryptLicense(licenseContent) ==
    [threw |-> ~licenseContent.decodes, licenseData |-> licenseContent]

\* static LicenseGenerator.getMachineFingerprint()
currentFingerprint == MachineFull

\* static LicenseGenerator.loadLicense(filePath)
loadLicense(file) == file.content

\* static LicenseGenerator.saveLicense(content, filePath)
saveLicense(licenseContent) == [exists |-> TRUE, content |-> licenseContent]

NoManagerFile == [exists |-> FALSE, content |-> NoQuickLicense]

Validation(valid, status, message, licenseType, remainingDays, expiresAt) ==
    [valid |-> valid, status |-> status, message |-> message,
     licenseType |-> licenseType, remainingDays |-> remainingDays,
     expiresAt |-> expiresAt]

Invalid(status, message) == Validation(FALSE, status, message, "", 0, NullDate)

\* The expiry test taken out.
LicenseExpired_never(licenseData, t) == FALSE

\* now > expiresAt
LicenseExpired(licenseData, t) == DateGreater(t, licenseData.expiresAt)

\* LicenseValidator.validateLicense
validateLicense(licenseContent, t) ==
    LET decrypted == staticDecryptLicense(licenseContent)
        licenseData == decrypted.licenseData
    IN  IF decrypted.threw THEN Invalid("invalid", "Invalid license format")
        ELSE IF LicenseExpired(licenseData, t)
          THEN Validation(FALSE, "expired", "License has expired", "", 0,
                          licenseData.expiresAt)
        ELSE IF /\ licenseData.licenseType # "UNBOUND"
                /\ licenseData.machineFingerprint # ""
                /\ licenseData.machineFingerprint # currentFingerprint
          THEN Invalid("machine_mismatch", "License bound to different machine")
        ELSE Validation(TRUE,
                        IF licenseData.licenseType = "UNBOUND" THEN "unbound" ELSE "valid",
                        "License valid", licenseData.licenseType,
                        CeilDays(licenseData.expiresAt - t), licenseData.expiresAt)

\* LicenseValidator.validateLicenseFile
validateLicenseFile(file, t) ==
    IF ~file.exists THEN Invalid("not_found", "License file not found")
    ELSE validateLicense(loadLicense(file), t)

NullManagerCache == [set |-> FALSE, validation |-> Invalid("", "")]

\* What one manager call leaves behind and hands back.
ManagerOutcome(c, lc, f, threw, error, value, fromCache, reads, writes) ==
    [cache |-> c, lastCheck |-> lc, file |-> f, threw |-> threw, error |-> error,
     value |-> value, fromCache |-> fromCache, reads |-> reads, writes |-> writes]

\* this.cache && (now - this.lastCheck) < this.cacheTimeout, with the default
\* cacheTimeout of 30 * 60 * 1000 ms.
ManagerCacheFresh(c, lc, t) == c.set /\ (t - lc) * WindowsPerDay < TicksPerDay

\* LicenseManager.ensureLicensed
managerEnsureLicensed(c, lc, f, t) ==
    IF ManagerCacheFresh(c, lc, t)
      THEN ManagerOutcome(c, lc, f, FALSE, "", c.validation, TRUE, 0, 0)
    ELSE
      LET validation == validateLicenseFile(f, t)
          reads == IF f.exists THEN 1 ELSE 0
      IN  IF ~validation.valid
            THEN ManagerOutcome(c, lc, f, TRUE, validation.message, Invalid("", ""),
                                FALSE, reads, 0)
            ELSE ManagerOutcome([set |-> TRUE, validation |-> validation], t, f,
                                FALSE, "", validation, FALSE, reads, 0)

\* The install that keeps the cache slot.
installLicense_keepsCache(licenseContent, c, lc, f, t) ==
    LET validation == validateLicense(licenseContent, t)
    IN  IF ~validation.valid
          THEN ManagerOutcome(c, lc, f, TRUE, validation.message, Invalid("", ""),
                              FALSE, 0, 0)
          ELSE ManagerOutcome(c, lc, saveLicense(licenseContent),
                              FALSE, "", validation, FALSE, 0, 1)

\* LicenseManager.installLicense
installLicense(licenseContent, c, lc, f, t) ==
    LET validation == validateLicense(licenseContent, t)
    IN  IF ~validation.valid
          THEN ManagerOutcome(c, lc, f, TRUE, validation.message, Invalid("", ""),
                              FALSE, 0, 0)
          ELSE ManagerOutcome(NullManagerCache, 0, saveLicense(licenseContent),
                              FALSE, "", validation, FALSE, 0, 1)

\* LicenseManager.getLicenseStatus: validateCurrentLicense, then the record
\* for the reporting surface.
getLicenseStatus(f, t) ==
    LET validation == validateLicenseFile(f, t)
    IN  IF ~validation.valid
          THEN [status |-> validation.status, message |-> validation.message,
                licensed |-> FALSE]
          ELSE [status |-> validation.status, message |-> validation.message,
                licensed |-> TRUE, remainingDays |-> validation.remainingDays,
                expiresAt |-> validation.expiresAt, info |-> <<>>]

----------------------------------------------------------------------------
(* The status widget (ChahuaLicenseWidget.updateWidget): the badge it shows *)
(* for a status record. A field the record does not have reads undefined,   *)
(* which is falsy and greater than no number.                               *)

Has(data, field) == field \in DOMAIN data

updateWidget(data) ==
    IF (Has(data, "success") /\ data.success) \/ (Has(data, "licensed") /\ data.licensed)
      THEN IF Has(data, "status") /\ data.status = "UNBOUND license active"
             THEN [statusClass |-> "unbound", statusText |-> "DEV"]
           ELSE IF Has(data, "daysRemaining") /\ data.daysRemaining > 30
             THEN [statusClass |-> "valid", statusText |-> "Licensed"]
           ELSE IF Has(data, "daysRemaining") /\ data.daysRemaining > 0
             THEN [statusClass |-> "warning",
                   statusText |-> ToString(data.daysRemaining) \o "d"]
           ELSE [statusClass |-> "error", statusText |-> "Expired"]
      ELSE [statusClass |-> "error", statusText |-> "License"]

----------------------------------------------------------------------------
(* State machine *)

VARIABLES now, stateFile, last, licenseFile, cache, lastCheck, lastGuard,
          managerFile, managerCache, managerLastCheck, lastManager,
          wire, opened, flight, probe

vars == <<now, stateFile, last, licenseFile, cache, lastCheck, lastGuard,
          managerFile, managerCache, managerLastCheck, lastManager,
          wire, opened, flight, probe>>

\* A license text on its way from the generator to decryptLicense, and what
\* decryptLicense made of it.
codecVars == <<wire, opened>>

\* The manager's fields and its license file.
managerVars == <<managerFile, managerCache, managerLastCheck>>

\* The guard's module state and the license file.
guardVars == <<licenseFile, cache, lastCheck>>

NoCall == [op |-> "none", env |-> Envelope(FALSE, FALSE, FALSE, NoLicense), at |-> 0,
           pre |-> AbsentFile, res |-> Failure("", 0)]

NoGuardCall ==
    [op |-> "none", content |-> Envelope(FALSE, FALSE, FALSE, NoLicense), at |-> 0,
     writable |-> TRUE,
     pre |-> [cache |-> NullCache, lastCheck |-> 0, file |-> AbsentFile,
              licenseFile |-> NoLicenseFile],
     out |-> Outcome(NullCache, 0, AbsentFile, NoLicenseFile, FALSE, "", NoData, FALSE, 0)]

NoManagerCall ==
    [op |-> "none", content |-> NoQuickLicense, at |-> 0,
     pre |-> [cache |-> NullManagerCache, lastCheck |-> 0, file |-> NoManagerFile],
     out |-> ManagerOutcome(NullManagerCache, 0, NoManagerFile, FALSE, "",
                            Invalid("", ""), FALSE, 0, 0)]

NoWire == [text |-> <<>>, rec |-> NoLicense, tamper |-> "none", saved |-> FALSE]

NotOpened == [done |-> FALSE, res |-> decryptLicense(Envelope(FALSE, FALSE, FALSE, NoLicense))]

\* The host the process runs on, and what getMachineFingerprint gave there.
NoProbe ==
    [host |-> Host("linux", "user", "host", "x64", <<"cpu-model">>, 8),
     done |-> FALSE, out |-> NoFingerprint]

\* No verifyLicense call in flight. base is the state file as the first call
\* of the calls in flight found it.
NoFlight ==
    [calls |-> [i \in CallIds |-> IdleCall], open |-> {}, interleaved |-> FALSE,
     base |-> AbsentFile]

Init ==
    /\ now = 0
    /\ stateFile = AbsentFile
    /\ last = NoCall
    /\ licenseFile = NoLicenseFile
    /\ cache = NullCache
    /\ lastCheck = 0
    /\ lastGuard = NoGuardCall
    /\ managerFile = NoManagerFile
    /\ managerCache = NullManagerCache
    /\ managerLastCheck = 0
    /\ lastManager = NoManagerCall
    /\ wire = NoWire
    /\ opened = NotOpened
    /\ flight = NoFlight
    /\ probe = NoProbe

\* A caller presents an envelope to verifyLicense.
VerifyLicense(env) ==
    LET out == verifyLicense(env, stateFile, now)
    IN  /\ stateFile' = out.file
        /\ last' = [op |-> "verifyLicense", env |-> env, at |-> now,
                    pre |-> stateFile, res |-> out.res]
        /\ now' = now
        /\ UNCHANGED <<probe, flight, codecVars, guardVars, lastGuard, managerVars, lastManager>>

\* Time passes between calls.
Tick(d) ==
    /\ now + d <= MaxNow
    /\ now' = now + d
    /\ last' = NoCall
    /\ lastGuard' = NoGuardCall
    /\ lastManager' = NoManagerCall
    /\ UNCHANGED <<probe, flight, codecVars, stateFile, guardVars, managerVars>>

\* The state file is deleted from outside.
RemoveStateFile ==
    /\ stateFile.exists
    /\ stateFile' = AbsentFile
    /\ last' = NoCall
    /\ UNCHANGED <<probe, flight, codecVars, now, guardVars, lastGuard, managerVars, lastManager>>

\* The state file is left unparseable (a crash in the middle of a write).
CorruptStateFile ==
    /\ stateFile.exists /\ stateFile.parses
    /\ stateFile' = CorruptFile
    /\ last' = NoCall
    /\ UNCHANGED <<probe, flight, codecVars, now, guardVars, lastGuard, managerVars, lastManager>>

\* The state file is left parseable but without activatedPlugins.
StripStateFile ==
    /\ stateFile.exists /\ stateFile.parses /\ stateFile.hasPlugins
    /\ stateFile' = [stateFile EXCEPT !.hasPlugins = FALSE, !.activatedPlugins = <<>>]
    /\ last' = NoCall
    /\ UNCHANGED <<probe, flight, codecVars, now, guardVars, lastGuard, managerVars, lastManager>>

Next ==
    \/ \E env \in Envelopes : VerifyLicense(env)
    \/ \E d \in Elapse : Tick(d)
    \/ RemoveStateFile
    \/ CorruptStateFile
    \/ StripStateFile

Spec == Init /\ [][Next]_vars

\* Texts installed as the license file in the guard's runs.
GuardEnvelopes ==
    {Envelope(TRUE, TRUE, TRUE, Lic("PLUGIN_LICENSE", "p1", f, d)) :
         f \in {""}, d \in {30, 90}}
    \cup {Envelope(TRUE, TRUE, TRUE, Lic("PLUGIN_LICENSE", "p1", f, 30)) :
         f \in {"UNBOUND", OtherFull}}
    \cup {Envelope(TRUE, TRUE, TRUE, Lic("PLUGIN_LICENSE", "", "UNBOUND", d)) :
         d \in {0, HugeDays}}
    \cup {Envelope(TRUE, FALSE, FALSE, NoLicense)}

GuardCall(op, content, e, writable) ==
    [op |-> op, content |-> content, at |-> now, writable |-> writable,
     pre |-> [cache |-> cache, lastCheck |-> lastCheck, file |-> stateFile,
              licenseFile |-> licenseFile],
     out |-> e]

\* The application asks the guard whether it is licensed.
EnsureLicensed ==
    LET e == ensureLicensed(cache, lastCheck, licenseFile, stateFile, now)
    IN  /\ cache' = e.cache
        /\ lastCheck' = e.lastCheck
        /\ stateFile' = e.file
        /\ licenseFile' = e.licenseFile
        /\ lastGuard' = GuardCall("ensureLicensed", Envelope(FALSE, FALSE, FALSE, NoLicense), e, TRUE)
        /\ lastManager' = NoManagerCall
        /\ UNCHANGED <<probe, flight, codecVars, now, last, managerVars>>

\* The user installs a license text through the guard, at a license location
\* that takes the write or refuses it.
InstallLicenseFromContent(licenseContent, writable) ==
    LET e == installLicenseFromContent(licenseContent, cache, lastCheck, licenseFile,
                                       stateFile, now, writable)
    IN  /\ cache' = e.cache
        /\ lastCheck' = e.lastCheck
        /\ stateFile' = e.file
        /\ licenseFile' = e.licenseFile
        /\ lastGuard' = GuardCall("installLicenseFromContent", licenseContent, e, writable)
        /\ lastManager' = NoManagerCall
        /\ UNCHANGED <<probe, flight, codecVars, now, last, managerVars>>

\* The generator's user copies a license text to the license location.
CopyContentToRoot(licenseContent) ==
    LET e == Outcome(cache, lastCheck, stateFile, copyContentToRoot(licenseContent),
                     FALSE, "", NoData, FALSE, 0)
    IN  /\ cache' = e.cache
        /\ lastCheck' = e.lastCheck
        /\ stateFile' = e.file
        /\ licenseFile' = e.licenseFile
        /\ lastGuard' = GuardCall("copyContentToRoot", licenseContent, e, TRUE)
        /\ lastManager' = NoManagerCall
        /\ UNCHANGED <<probe, flight, codecVars, now, last, managerVars>>

\* The license file is deleted from outside.
RemoveLicenseFile ==
    /\ licenseFile.exists
    /\ licenseFile' = NoLicenseFile
    /\ lastGuard' = NoGuardCall
    /\ lastManager' = NoManagerCall
    /\ UNCHANGED <<probe, flight, codecVars, now, stateFile, last, cache, lastCheck, managerVars>>

\* A license text is put at the license location from outside (the key file
\* shipped with the application, or copied there by hand).
PlaceLicenseFile(licenseContent) ==
    /\ licenseFile # LicenseFileOf(licenseContent)
    /\ licenseFile' = LicenseFileOf(licenseContent)
    /\ lastGuard' = NoGuardCall
    /\ lastManager' = NoManagerCall
    /\ UNCHANGED <<probe, flight, codecVars, now, stateFile, last, cache, lastCheck, managerVars>>

NextGuard ==
    \/ EnsureLicensed
    \/ \E licenseContent \in GuardEnvelopes : PlaceLicenseFile(licenseContent)
    \/ \E licenseContent \in GuardEnvelopes : InstallLicenseFromContent(licenseContent, TRUE)
    \/ \E licenseContent \in GuardEnvelopes : CopyContentToRoot(licenseContent)
    \/ \E d \in Elapse : Tick(d)
    \/ RemoveLicenseFile

SpecGuard == Init /\ [][NextGuard]_vars

\* Texts handed to installLicenseFromContent in the runs about installing:
\* unbound 30- and 90-day licenses, an 'UNBOUND' one, one whose duration no
\* Date can hold, and a text that is no license.
InstallEnvelopes ==
    {Envelope(TRUE, TRUE, TRUE, Lic("PLUGIN_LICENSE", "p1", "", d)) : d \in {30, 90, HugeDays}}
    \cup {Envelope(TRUE, TRUE, TRUE, Lic("PLUGIN_LICENSE", "p1", "UNBOUND", 30))}
    \cup {Envelope(TRUE, FALSE, FALSE, NoLicense)}

\* Installing through the guard at a license location that takes the write
\* or refuses it, with checks and pauses in between.
NextInstall ==
    \/ \E licenseContent \in InstallEnvelopes, writable \in BOOLEAN :
           InstallLicenseFromContent(licenseContent, writable)
    \/ EnsureLicensed
    \/ \E d \in Elapse : Tick(d)
    \/ RemoveLicenseFile

SpecInstall == Init /\ [][NextInstall]_vars

ManagerCall(op, content, e) ==
    [op |-> op, content |-> content, at |-> now,
     pre |-> [cache |-> managerCache, lastCheck |-> managerLastCheck,
              file |-> managerFile],
     out |-> e]

\* The application asks its LicenseManager whether it is licensed.
ManagerEnsureLicensed ==
    LET e == managerEnsureLicensed(managerCache, managerLastCheck, managerFile, now)
    IN  /\ managerCache' = e.cache
        /\ managerLastCheck' = e.lastCheck
        /\ managerFile' = e.file
        /\ lastManager' = ManagerCall("ensureLicensed", NoQuickLicense, e)
        /\ lastGuard' = NoGuardCall
        /\ UNCHANGED <<probe, flight, codecVars, now, stateFile, last, guardVars>>

\* The user installs a license text through the LicenseManager.
InstallLicense(licenseContent) ==
    LET e == installLicense(licenseContent, managerCache, managerLastCheck,
                            managerFile, now)
    IN  /\ managerCache' = e.cache
        /\ managerLastCheck' = e.lastCheck
        /\ managerFile' = e.file
        /\ lastManager' = ManagerCall("installLicense", licenseContent, e)
        /\ lastGuard' = NoGuardCall
        /\ UNCHANGED <<probe, flight, codecVars, now, stateFile, last, guardVars>>

\* A reporting surface asks the LicenseManager for the status.
GetLicenseStatus ==
    /\ lastManager' = ManagerCall("getLicenseStatus", NoQuickLicense,
                          ManagerOutcome(managerCache, managerLastCheck, managerFile,
                                         FALSE, "", validateLicenseFile(managerFile, now),
                                         FALSE, IF managerFile.exists THEN 1 ELSE 0, 0))
    /\ lastGuard' = NoGuardCall
    /\ UNCHANGED <<probe, flight, codecVars, now, stateFile, last, guardVars, managerVars>>

\* The manager's license file is deleted from outside.
RemoveManagerFile ==
    /\ managerFile.exists
    /\ managerFile' = NoManagerFile
    /\ lastManager' = NoManagerCall
    /\ lastGuard' = NoGuardCall
    /\ UNCHANGED <<probe, flight, codecVars, now, stateFile, last, guardVars, managerCache, managerLastCheck>>

\* A license text is put at the manager's license location from outside.
PlaceManagerFile(licenseContent) ==
    /\ managerFile # saveLicense(licenseContent)
    /\ managerFile' = saveLicense(licenseContent)
    /\ lastManager' = NoManagerCall
    /\ lastGuard' = NoGuardCall
    /\ UNCHANGED <<probe, flight, codecVars, now, stateFile, last, guardVars, managerCache, managerLastCheck>>

NextManager ==
    \/ ManagerEnsureLicensed
    \/ \E licenseContent \in QuickLicenses : PlaceManagerFile(licenseContent)
    \/ \E licenseContent \in QuickLicenses : InstallLicense(licenseContent)
    \/ GetLicenseStatus
    \/ \E d \in Elapse : Tick(d)
    \/ RemoveManagerFile

SpecManager == Init /\ [][NextManager]_vars

\* Everything but the codec's variables.
engineVars ==
    <<now, stateFile, last, licenseFile, cache, lastCheck, lastGuard,
      managerFile, managerCache, managerLastCheck, lastManager, flight, probe>>

\* The generator encrypts a record.
EncryptLicense(licenseData, saltId, ivId) ==
    /\ wire' = [text |-> encryptLicense(licenseData, saltId, ivId), rec |-> licenseData,
                tamper |-> "none", saved |-> FALSE]
    /\ opened' = NotOpened
    /\ UNCHANGED engineVars

\* The generator writes the text to a license file.
SaveLicenseFile ==
    /\ wire.text # <<>> /\ ~wire.saved /\ wire.tamper = "none"
    /\ wire' = [wire EXCEPT !.text = saveLicenseFile(@), !.saved = TRUE]
    /\ opened' = NotOpened
    /\ UNCHANGED engineVars

\* Somebody edits the package inside the text and leaves the digest alone.
Tamper(kind) ==
    /\ wire.text # <<>> /\ wire.tamper = "none"
    /\ wire' = [wire EXCEPT !.text = TamperText(@, kind), !.tamper = kind]
    /\ opened' = NotOpened
    /\ UNCHANGED engineVars

\* The text is given to decryptLicense.
DecryptLicense ==
    /\ wire.text # <<>>
    /\ opened' = [done |-> TRUE, res |-> decryptLicenseText(wire.text)]
    /\ UNCHANGED <<wire, engineVars>>

NextCodec ==
    \/ \E licenseData \in CodecRecords, saltId \in SaltIds, ivId \in IvIds :
           EncryptLicense(licenseData, saltId, ivId)
    \/ SaveLicenseFile
    \/ \E kind \in TamperKinds : Tamper(kind)
    \/ DecryptLicense

SpecCodec == Init /\ [][NextCodec]_vars

\* A generator operation encrypts its record and writes the license file;
\* an operation that refuses its arguments leaves no text.
Issue(generated, saltId, ivId) ==
    /\ wire' = IF generated.success
                 THEN [text |-> saveLicenseFile(encryptLicense(generated.licenseData,
                                                               saltId, ivId)),
                       rec |-> generated.licenseData, tamper |-> "none", saved |-> TRUE]
                 ELSE NoWire
    /\ opened' = NotOpened
    /\ last' = NoCall
    /\ UNCHANGED <<now, stateFile, licenseFile, cache, lastCheck, lastGuard,
                   managerFile, managerCache, managerLastCheck, lastManager,
                   flight, probe>>

\* The issued text is presented to verifyLicense on an installation that has
\* no state file yet.
VerifyIssued ==
    /\ wire.text # <<>> /\ ~stateFile.exists
    /\ LET env == ReadEnvelope(wire.text)
           out == verifyLicense(env, stateFile, now)
       IN  /\ stateFile' = out.file
           /\ last' = [op |-> "verifyLicense", env |-> env, at |-> now,
                       pre |-> stateFile, res |-> out.res]
    /\ UNCHANGED <<now, probe, flight, codecVars, guardVars, lastGuard, managerVars,
                   lastManager>>

NextGenerator ==
    \/ \E days \in DailyDays, pluginId \in DailyPluginIds,
          fingerprint \in FingerprintOptions, saltId \in SaltIds, ivId \in IvIds :
           Issue(generateDailyLicense(days, pluginId, fingerprint, now), saltId, ivId)
    \/ \E saltId \in SaltIds, ivId \in IvIds :
           Issue(generate30DayLicense(now), saltId, ivId)
    \/ \E saltId \in SaltIds, ivId \in IvIds :
           Issue(generate60DayLicense(now), saltId, ivId)
    \/ \E saltId \in SaltIds, ivId \in IvIds :
           Issue(generate90DayLicense(now), saltId, ivId)
    \/ \E saltId \in SaltIds, ivId \in IvIds :
           Issue(generate120DayLicense(now), saltId, ivId)
    \/ \E saltId \in SaltIds, ivId \in IvIds :
           Issue(generateDevLicense(now), saltId, ivId)
    \/ \E fingerprint \in FingerprintOptions, saltId \in SaltIds, ivId \in IvIds :
           Issue(generateCustomerLicense(fingerprint, now), saltId, ivId)
    \/ \E durationDays \in OrderDurations, saltId \in SaltIds, ivId \in IvIds :
           Issue(generateForOrder(durationDays, now), saltId, ivId)
    \/ VerifyIssued
    \/ Tick(90 * TicksPerDay)
    \/ RemoveStateFile

SpecGenerator == Init /\ [][NextGenerator]_vars

\* An application checks its license through the legacy guard or through a
\* LicenseManager: the two read the same tools/license.key in formats the
\* other cannot decode, so a deployment runs one of them.
GuardIdle == licenseFile = NoLicenseFile /\ cache = NullCache /\ stateFile = AbsentFile

ManagerIdle == managerFile = NoManagerFile /\ managerCache = NullManagerCache

NextCache ==
    \/ ManagerIdle /\ NextGuard
    \/ GuardIdle /\ NextManager

SpecCache == Init /\ [][NextCache]_vars

\* No call has been made and not yet collected.
Quiescent == \A i \in CallIds : flight.calls[i].pc = "idle"

\* Every call made has returned.
AllReturned ==
    /\ \A i \in CallIds : flight.calls[i].pc \in {"idle", "done"}
    /\ \E i \in CallIds : flight.calls[i].pc = "done"

FlightProcess == Process(flight.calls, stateFile, flight.open, flight.interleaved)

FlightAfter(p, base) ==
    /\ stateFile' = p.file
    /\ flight' = [calls |-> p.calls, open |-> p.open, interleaved |-> p.interleaved,
                  base |-> base]
    /\ UNCHANGED <<probe, now, last, codecVars, guardVars, lastGuard, managerVars,
                   lastManager>>

\* A caller calls verifyLicense: the call runs up to its first await.
StartCall(i, env) ==
    /\ flight.calls[i].pc = "idle"
    /\ FlightAfter(RunToAwait([FlightProcess EXCEPT !.calls[i] = Call("decrypt", env, AbsentFile)],
                              i, now),
                   IF Quiescent THEN stateFile ELSE flight.base)

\* The event loop resumes a call that was waiting.
Resume(i) ==
    /\ flight.calls[i].pc \in {"read", "write"}
    /\ FlightAfter(RunToAwait(FlightProcess, i, now), flight.base)

\* The callers have taken the results of the calls made.
Settle ==
    /\ AllReturned
    /\ flight' = NoFlight
    /\ UNCHANGED <<probe, now, stateFile, last, codecVars, guardVars, lastGuard,
                   managerVars, lastManager>>

\* Time passes between two rounds of calls.
TickBetweenCalls(d) == Quiescent /\ Tick(d)

NextFlight ==
    \/ \E i \in CallIds, env \in FlightEnvelopes : StartCall(i, env)
    \/ \E i \in CallIds : Resume(i)
    \/ Settle
    \/ \E d \in Elapse : TickBetweenCalls(d)

SpecFlight == Init /\ [][NextFlight]_vars

\* Several processes sharing one state file, one verifyLicense call in each:
\* call i is the call of process i. The operating system runs the processes
\* side by side, so the readFileSync of line 620 and the writeFileSync of line
\* 705 of one process can have file accesses of another between them.

\* Process i calls verifyLicense and decodes the text.
CallInProcess(i, env) ==
    /\ flight.calls[i].pc = "idle"
    /\ FlightAfter(RunStretch([FlightProcess EXCEPT !.calls[i] = Call("decrypt", env, AbsentFile)],
                              i, now),
                   IF Quiescent THEN stateFile ELSE flight.base)

\* Process i gets on by one stretch: it reads the state file, or reconciles
\* what it read and writes the file.
StepInProcess(i) ==
    /\ flight.calls[i].pc \in {"read", "write"}
    /\ FlightAfter(RunStretch(FlightProcess, i, now), flight.base)

NextProcesses ==
    \/ \E i \in CallIds, env \in FlightEnvelopes : CallInProcess(i, env)
    \/ \E i \in CallIds : StepInProcess(i)
    \/ Settle
    \/ \E d \in Elapse : TickBetweenCalls(d)

SpecProcesses == Init /\ [][NextProcesses]_vars

\* Records of the older license types, and two of the current type.
LegacyTypes == {"DEV_LICENSE", "CUSTOMER_LICENSE", "CHAHUADEV_DAILY_LICENSE", ""}

LegacyEnvelopes ==
    {Envelope(TRUE, TRUE, TRUE, Lic(ty, "", "", 30)) : ty \in LegacyTypes}
    \cup {Envelope(TRUE, TRUE, TRUE, r) :
             r \in {Lic("DEV_LICENSE", "p1", "", 90), Lic("CUSTOMER_LICENSE", "", "", 0),
                    Lic("CUSTOMER_LICENSE", "", OtherFull, 30),
                    Lic("TRIAL_LICENSE", "", MachineFull, 30),
                    Lic("PLUGIN_LICENSE", "", "", 30)}}

NextLegacy ==
    \/ \E env \in LegacyEnvelopes : VerifyLicense(env)
    \/ \E d \in Elapse : Tick(d)
    \/ CorruptStateFile

SpecLegacy == Init /\ [][NextLegacy]_vars

\* The library is started on some host.
StartOn(host) ==
    /\ probe.host # host \/ probe.done
    /\ probe' = [host |-> host, done |-> FALSE, out |-> NoFingerprint]
    /\ UNCHANGED <<now, stateFile, last, guardVars, lastGuard, managerVars, lastManager,
                   flight, codecVars>>

\* A caller asks for the machine fingerprint.
GetMachineFingerprint ==
    /\ ~probe.done
    /\ probe' = [probe EXCEPT !.done = TRUE, !.out = fingerprintOf(probe.host)]
    /\ UNCHANGED <<now, stateFile, last, guardVars, lastGuard, managerVars, lastManager,
                   flight, codecVars>>

NextHost ==
    \/ \E host \in Hosts : StartOn(host)
    \/ GetMachineFingerprint

SpecHost == Init /\ [][NextHost]_vars

----------------------------------------------------------------------------
(* Vocabulary of the properties *)

IsVerify == last.op = "verifyLicense"

\* The envelope of the last call decoded to a record.
Decoded == last.env.structure /\ last.env.hashOk /\ last.env.plainOk

\* The decoded record of the last call, and its product identifier after
\* legacy normalization.
Rec == last.env.rec

ProductId ==
    IF Rec.type = "PLUGIN_LICENSE" THEN Rec.pluginId ELSE LegacyPluginId(Rec.type)

Readable(sf) == sf.exists /\ sf.parses

WellFormed(sf) == Readable(sf) /\ sf.hasPlugins

Deadline(sf) == sf.tierActivationDate + sf.activeTier * TicksPerDay

Unset(sf) == ~sf.exists \/ (Readable(sf) /\ sf.activeTier = 0)

Expired(sf, t) == Readable(sf) /\ sf.activeTier # 0 /\ t > Deadline(sf)

Active(sf, t) == Readable(sf) /\ sf.activeTier # 0 /\ t <= Deadline(sf)

\* Unbound, or bound to this machine.
BindingCompatible(r) == r.fingerprint \in {"", "UNBOUND", MachineFull}

NoDuplicates(seq) == \A i, j \in 1..Len(seq) : seq[i] = seq[j] => i = j

SameTier(sf1, sf2) ==
    sf1.activeTier = sf2.activeTier /\ sf1.tierActivationDate = sf2.tierActivationDate

----------------------------------------------------------------------------
(* Properties *)

\* C1: from a well-formed Active, unexpired state at tier T, verifyLicense on a
\* decodable, binding-compatible record that has a product identifier and a
\* durationDays D with D not in {90, 120} or D <= T returns success and leaves
\* activeTier and tierActivationDate as they were.
C1_NonDowngradeStep ==
    (/\ IsVerify /\ Decoded
     /\ WellFormed(last.pre) /\ Active(last.pre, last.at)
     /\ BindingCompatible(Rec)
     /\ ProductId # "" /\ Rec.durationDays # 0
     /\ (Rec.durationDays \notin {90, 120} \/ Rec.durationDays <= last.pre.activeTier))
    => (last.res.success /\ SameTier(stateFile, last.pre))

\* C2: from an Active, unexpired state at tier T, an accepted license with
\* durationDays D in {90, 120} and D > T sets activeTier = D and
\* tierActivationDate = the time of the call.
C2_UpgradeAcceptance ==
    (/\ IsVerify /\ last.res.success
     /\ Active(last.pre, last.at)
     /\ Rec.durationDays \in {90, 120}
     /\ Rec.durationDays > last.pre.activeTier)
    => (stateFile.activeTier = Rec.durationDays /\ stateFile.tierActivationDate = last.at)

C2_Witness ==
    /\ IsVerify /\ last.res.success
    /\ Active(last.pre, last.at)
    /\ last.at > last.pre.tierActivationDate
    /\ Rec.durationDays = 120 /\ last.pre.activeTier = 90
    /\ stateFile.activeTier = 120

\* C3: from an Unset state, or one whose deadline has passed, an accepted
\* license with any durationDays D sets activeTier = D and
\* tierActivationDate = the time of the call.
C3_AdoptFromUnsetOrExpired ==
    (/\ IsVerify /\ last.res.success
     /\ (Unset(last.pre) \/ Expired(last.pre, last.at)))
    => (stateFile.activeTier = Rec.durationDays /\ stateFile.tierActivationDate = last.at)

C3_Witness ==
    /\ IsVerify /\ last.res.success
    /\ Expired(last.pre, last.at)
    /\ last.pre.activeTier = 90 /\ Rec.durationDays = 30
    /\ stateFile.activeTier = 30 /\ stateFile.tierActivationDate = last.at

\* C4: a verifyLicense call on a tier that has not expired never lowers
\* activeTier, moves tierActivationDate only when activeTier strictly grows,
\* and changes activeTier only to 90 or 120.
C4_MonotonicTier ==
    (IsVerify /\ Active(last.pre, last.at))
    => (/\ stateFile.activeTier >= last.pre.activeTier
        /\ (stateFile.tierActivationDate # last.pre.tierActivationDate
              => stateFile.activeTier > last.pre.activeTier)
        /\ (stateFile.activeTier # last.pre.activeTier
              => stateFile.activeTier \in {90, 120}))

C4_Witness ==
    /\ IsVerify /\ Active(last.pre, last.at)
    /\ last.pre.activeTier = 120 /\ Rec.durationDays = 90
    /\ last.res.success
    /\ last.at > last.pre.tierActivationDate

\* C5: a decoded license whose fingerprint is a real hash different from this
\* machine's full fingerprint is refused with the binding-mismatch error and
\* the state file is what it was before the call.
C5_BindingMismatchFatal ==
    (/\ IsVerify /\ Decoded
     /\ Rec.fingerprint \notin {"", "UNBOUND"}
     /\ Rec.fingerprint # getMachineFingerprint.full)
    => (~last.res.success /\ last.res.error = ErrBinding /\ stateFile = last.pre)

C5_Witness ==
    /\ IsVerify /\ Decoded
    /\ Rec.fingerprint = OtherFull
    /\ Expired(last.pre, last.at) /\ WellFormed(last.pre)
    /\ ~last.res.success

\* C6: a decoded license whose fingerprint is null or the sentinel 'UNBOUND'
\* never fails with the binding-mismatch error.
C6_UnboundNeverRejected ==
    (IsVerify /\ Decoded /\ Rec.fingerprint \in {"", "UNBOUND"})
    => last.res.error # ErrBinding

\* C7: the persisted activatedPlugins never holds a product identifier twice,
\* and a call whose product identifier is already present leaves it unchanged.
C7_IdempotentRegistration ==
    /\ NoDuplicates(stateFile.activatedPlugins)
    /\ (IsVerify /\ Decoded /\ Includes(last.pre.activatedPlugins, ProductId))
         => stateFile.activatedPlugins = last.pre.activatedPlugins

C7_Witness ==
    /\ IsVerify /\ last.res.success
    /\ Len(last.pre.activatedPlugins) >= 2
    /\ Includes(last.pre.activatedPlugins, ProductId)
    /\ stateFile.activatedPlugins = last.pre.activatedPlugins

\* C8: on a readable state file no verifyLicense call removes a product
\* identifier from activatedPlugins, also when an expired tier is replaced.
C8_HistoryPreserved ==
    (IsVerify /\ Readable(last.pre))
    => \A i \in 1..Len(last.pre.activatedPlugins) :
           Includes(stateFile.activatedPlugins, last.pre.activatedPlugins[i])

C8_Witness ==
    /\ IsVerify /\ last.res.success
    /\ Expired(last.pre, last.at)
    /\ Len(last.pre.activatedPlugins) >= 2
    /\ stateFile.tierActivationDate = last.at
    /\ Len(stateFile.activatedPlugins) > Len(last.pre.activatedPlugins)

\* C9: a verifyLicense call that returns success writes the state file exactly
\* once, and a call that returns failure writes it zero times.
C9_PersistOnAcceptedPath ==
    IsVerify => /\ (last.res.success => last.res.writes = 1)
                /\ (~last.res.success => last.res.writes = 0)

\* C10: when the envelope does not decode, or the record after legacy
\* normalization lacks a product identifier or durationDays, verifyLicense
\* returns failure and the state file is unchanged.
C10_FatalFailuresDoNotMutate ==
    (IsVerify /\ (~Decoded \/ ProductId = "" \/ Rec.durationDays = 0))
    => (~last.res.success /\ stateFile = last.pre)

C10_Witness ==
    /\ IsVerify /\ Decoded
    /\ ProductId # "" /\ Rec.durationDays = 0
    /\ Expired(last.pre, last.at) /\ WellFormed(last.pre)
    /\ ~last.res.success /\ stateFile = last.pre

\* C11: when the state file exists but is unparseable, or parses without
\* activatedPlugins, verifyLicense on a valid license behaves as from the Unset
\* state: it returns the result it returns with no state file, adopts the
\* license's tier at the time of the call and leaves a well-formed state file.
C11_CorruptStateHealed ==
    (/\ IsVerify /\ Decoded
     /\ last.pre.exists /\ ~WellFormed(last.pre)
     /\ Rec.fingerprint \in {"", getMachineFingerprint.full}
     /\ ProductId # "" /\ Rec.durationDays \in 1..MaxDays)
    => (/\ last.res.success
        /\ last.res = verifyLicense(last.env, AbsentFile, last.at).res
        /\ stateFile.activeTier = Rec.durationDays
        /\ stateFile.tierActivationDate = last.at
        /\ WellFormed(stateFile))

\* C18: every successful verifyLicense result reports the persisted tier and
\* activation date, expiresAt = tierActivationDate + activeTier days, and
\* daysRemaining = the whole days, rounded up, from the call to expiresAt, or 0
\* when none are left; daysRemaining is never negative.
C18_RemainingFromPersistedTier ==
    (IsVerify /\ last.res.success)
    => LET d == last.res.data
           left == d.expiresAt - last.at
       IN  /\ d.currentTier = stateFile.activeTier
           /\ d.tierActivationDate = stateFile.tierActivationDate
           /\ d.expiresAt = stateFile.tierActivationDate + stateFile.activeTier * TicksPerDay
           /\ d.daysRemaining >= 0
           /\ (left <= 0 => d.daysRemaining = 0)
           /\ (left > 0 => /\ d.daysRemaining * TicksPerDay >= left
                           /\ (d.daysRemaining - 1) * TicksPerDay < left)

C18_Witness ==
    /\ IsVerify /\ last.res.success
    /\ Active(last.pre, last.at) /\ SameTier(stateFile, last.pre)
    /\ last.at > stateFile.tierActivationDate
    /\ last.res.data.daysRemaining * TicksPerDay > last.res.data.expiresAt - last.at
    /\ last.res.data.daysRemaining < last.res.data.currentTier

\* C19: with an absent or empty state file, verifyLicense on a decodable
\* unbound license (fingerprint null or 'UNBOUND') for product p with
\* durationDays D returns success with currentTier = D and daysRemaining = D
\* and persists activeTier = D and activatedPlugins = [p].
C19_FirstActivation ==
    (/\ IsVerify /\ Decoded
     /\ last.pre \in {AbsentFile, CorruptFile}
     /\ Rec.type = "PLUGIN_LICENSE" /\ Rec.pluginId # ""
     /\ Rec.fingerprint \in {"", "UNBOUND"}
     /\ Rec.durationDays \in 1..MaxDays)
    => (/\ last.res.success
        /\ last.res.data.currentTier = Rec.durationDays
        /\ last.res.data.daysRemaining = Rec.durationDays
        /\ stateFile.activeTier = Rec.durationDays
        /\ stateFile.activatedPlugins = <<Rec.pluginId>>)

\* C23: verifyLicense gives every decoded record whose type is not
\* PLUGIN_LICENSE a product identifier fixed by the type alone: DEV_LICENSE,
\* CUSTOMER_LICENSE and CHAHUADEV_DAILY_LICENSE have three identifiers of their
\* own, every other or missing type has the legacy-unknown one. The step does
\* not fail and comes before the required-field check: such a record that
\* passed the binding check and has a durationDays is accepted and registered
\* under that identifier whatever its pluginId was, and is refused as
\* incomplete only for want of durationDays.
C23_LegacyNormalization ==
    /\ Cardinality({LegacyPluginId(ty) : ty \in LegacyTypes}) = 4
    /\ \A ty \in LegacyTypes :
         (LegacyPluginId(ty) = LegacyPluginId("")) = (ty = "")
    /\ (/\ IsVerify /\ Decoded /\ Rec.type # "PLUGIN_LICENSE"
        /\ ~BindingMismatch(Rec)
        /\ Rec.durationDays \in 1..MaxDays
        /\ (WellFormed(last.pre) \/ ~Readable(last.pre)))
       => (/\ last.res.success
           /\ last.res.data.pluginId = LegacyPluginId(Rec.type)
           /\ Rec.type \notin LegacyTypes
                => last.res.data.pluginId = LegacyPluginId("")
           /\ Includes(stateFile.activatedPlugins, LegacyPluginId(Rec.type)))
    /\ (/\ IsVerify /\ Decoded /\ Rec.type # "PLUGIN_LICENSE"
        /\ last.res.error = ErrIncomplete)
       => Rec.durationDays = 0

\* A CUSTOMER_LICENSE record without pluginId registered next to another
\* legacy product.
C23_Witness ==
    /\ IsVerify /\ last.res.success
    /\ Rec.type = "CUSTOMER_LICENSE" /\ Rec.pluginId = ""
    /\ Len(last.pre.activatedPlugins) >= 1
    /\ ~Includes(last.pre.activatedPlugins, "com.chahuadev.legacy-customer-plugin")
    /\ Includes(stateFile.activatedPlugins, "com.chahuadev.legacy-customer-plugin")

\* C24: the record a successful verifyLicense returns for a license whose type
\* is not PLUGIN_LICENSE carries the current type and the current version.
C24_LegacyStampedCurrent ==
    (IsVerify /\ last.res.success /\ Rec.type # "PLUGIN_LICENSE")
    => (/\ last.res.data.type = "PLUGIN_LICENSE"
        /\ last.res.data.version = CurrentVersion)

\* C25: every state file verifyLicense writes has a positive activeTier and a
\* tierActivationDate that is not null, and no call on a decoded record with
\* durationDays <= 0 changes the tier.
C25_WellFormedState ==
    /\ (IsVerify /\ last.res.writes = 1)
       => (stateFile.activeTier > 0 /\ stateFile.tierActivationDate # NullDate)
    /\ (IsVerify /\ Decoded /\ Rec.durationDays <= 0)
       => SameTier(stateFile, last.pre)

\* What the last call would have done with the same license issued again.
Twin == verifyLicense([last.env EXCEPT !.rec = Reissue(@)], last.pre, last.at)

SecondCallTimes ==
    {t2 \in {now + d : d \in {0, 1} \cup Elapse} \cup {Deadline(stateFile) - 1} :
         t2 >= now /\ t2 <= MaxNow + 90 * TicksPerDay}

\* t is before the deadline of the tier persisted in sf, if sf holds one.
BeforeDeadline(sf, t) == (Readable(sf) /\ sf.activeTier # 0) => t < Deadline(sf)

\* C32: after verifyLicense on a record with durationDays > 0, a second call
\* on the same envelope before the deadline of the persisted tier leaves the
\* state file as the first call left it.
C32_ReverifyIdempotent ==
    (IsVerify /\ Decoded /\ Rec.durationDays > 0)
    => \A t2 \in SecondCallTimes :
           BeforeDeadline(stateFile, t2)
           => verifyLicense(last.env, stateFile, t2).file = stateFile

\* A second 90-day call at the tick of the call that set the 90-day tier up,
\* with later times before the deadline to present it again.
C32_Witness ==
    /\ IsVerify /\ last.res.success /\ Rec.durationDays = 90
    /\ last.pre = stateFile
    /\ stateFile.activeTier = 90 /\ stateFile.tierActivationDate = last.at
    /\ Includes(stateFile.activatedPlugins, ProductId)
    /\ Len(stateFile.activatedPlugins) = 2
    /\ \E t2 \in SecondCallTimes : t2 > now /\ BeforeDeadline(stateFile, t2)

\* The last call came at the very deadline of a well-formed persisted tier,
\* with a record whose duration is no eligible upgrade of that tier.
AtDeadlineNoUpgrade ==
    /\ WellFormed(last.pre) /\ last.pre.activeTier # 0
    /\ last.at = Deadline(last.pre)
    /\ ~canAutoUpgrade(Rec.durationDays, last.pre.activeTier)

\* C37: the persisted tier is expired only when the time of the call is
\* later than tierActivationDate + activeTier days. At the deadline itself a
\* verifyLicense call on an acceptable record that is no eligible upgrade
\* succeeds, keeps tier and activation date and reports daysRemaining = 0;
\* every other successful call on a record with durationDays > 0 reports
\* daysRemaining of at least 1.
C37_StrictExpiryBoundary ==
    /\ (IsVerify /\ WellFormed(last.pre) /\ last.pre.activeTier \in 1..MaxDays)
       => (TierExpired(last.pre, last.at) <=> last.at > Deadline(last.pre))
    /\ (/\ IsVerify /\ Decoded /\ ~BindingMismatch(Rec)
        /\ ~MissingFields(ConvertLegacy(Rec)) /\ Rec.durationDays > 0
        /\ AtDeadlineNoUpgrade)
       => (/\ last.res.success
           /\ SameTier(stateFile, last.pre)
           /\ last.res.data.daysRemaining = 0)
    /\ (IsVerify /\ last.res.success /\ Rec.durationDays > 0 /\ ~AtDeadlineNoUpgrade)
       => last.res.data.daysRemaining >= 1

\* A 30-day license presented on the last instant of a 90-day tier.
C37_Witness ==
    /\ IsVerify /\ last.res.success /\ Rec.durationDays = 30
    /\ last.pre.activeTier = 90 /\ last.at = Deadline(last.pre)
    /\ SameTier(stateFile, last.pre)
    /\ last.res.data.daysRemaining = 0

----------------------------------------------------------------------------
(* Vocabulary of the cache properties *)

IsGuardEnsure == lastGuard.op = "ensureLicensed"

IsGuardInstall == lastGuard.op = "installLicenseFromContent"

IsCopy == lastGuard.op = "copyContentToRoot"

IsManagerEnsure == lastManager.op = "ensureLicensed"

IsManagerInstall == lastManager.op = "installLicense"

IsManagerStatus == lastManager.op = "getLicenseStatus"

\* Less than the cache window (30 minutes) lies between lc and t.
WithinWindow(lc, t) == (t - lc) * WindowsPerDay < TicksPerDay

\* The slot holds a result that a call at the present time would hand out.
GuardSlotUsable == cache.set /\ WithinWindow(lastCheck, now)

ManagerSlotUsable == managerCache.set /\ WithinWindow(managerLastCheck, now)

\* C12: an ensureLicensed call, of the guard or of the LicenseManager, that
\* finds a result in the slot stored less than the cache window ago returns
\* that result and reads no license file and leaves the state file, the
\* license file and the slot as they were.
C12_CacheReuse ==
    /\ (/\ IsGuardEnsure /\ lastGuard.pre.cache.set
        /\ WithinWindow(lastGuard.pre.lastCheck, lastGuard.at))
       => (/\ ~lastGuard.out.threw
           /\ lastGuard.out.value = lastGuard.pre.cache.data
           /\ lastGuard.out.reads = 0
           /\ stateFile = lastGuard.pre.file
           /\ licenseFile = lastGuard.pre.licenseFile
           /\ cache = lastGuard.pre.cache /\ lastCheck = lastGuard.pre.lastCheck)
    /\ (/\ IsManagerEnsure /\ lastManager.pre.cache.set
        /\ WithinWindow(lastManager.pre.lastCheck, lastManager.at))
       => (/\ ~lastManager.out.threw
           /\ lastManager.out.value = lastManager.pre.cache.validation
           /\ lastManager.out.reads = 0 /\ lastManager.out.writes = 0
           /\ managerFile = lastManager.pre.file
           /\ managerCache = lastManager.pre.cache
           /\ managerLastCheck = lastManager.pre.lastCheck)

\* The guard answers from its slot although the license file is gone.
C12_Witness ==
    /\ IsGuardEnsure /\ lastGuard.pre.cache.set
    /\ WithinWindow(lastGuard.pre.lastCheck, lastGuard.at)
    /\ ~lastGuard.pre.licenseFile.exists
    /\ ~lastGuard.out.threw /\ lastGuard.out.value.currentTier = 90

\* C13: an ensureLicensed call, of the guard or of the LicenseManager, that
\* throws leaves the slot and its timestamp as they were; a call answers from
\* the slot only when the slot is usable, after a throwing call it is not, and
\* it becomes usable again only through a call that computed a result anew.
C13_SlotKeptOnFailure ==
    /\ (IsGuardEnsure /\ lastGuard.out.threw)
       => (/\ cache = lastGuard.pre.cache /\ lastCheck = lastGuard.pre.lastCheck
           /\ ~lastGuard.out.fromCache /\ ~GuardSlotUsable)
    /\ (IsGuardEnsure /\ lastGuard.out.fromCache)
       => (lastGuard.pre.cache.set
           /\ WithinWindow(lastGuard.pre.lastCheck, lastGuard.at))
    /\ (IsManagerEnsure /\ lastManager.out.threw)
       => (/\ managerCache = lastManager.pre.cache
           /\ managerLastCheck = lastManager.pre.lastCheck
           /\ ~lastManager.out.fromCache /\ ~ManagerSlotUsable)
    /\ (IsManagerEnsure /\ lastManager.out.fromCache)
       => (lastManager.pre.cache.set
           /\ WithinWindow(lastManager.pre.lastCheck, lastManager.at))

C13_SlotFilledBySuccess ==
    /\ (~GuardSlotUsable /\ GuardSlotUsable')
       => (lastGuard'.op # "none" /\ ~lastGuard'.out.threw /\ ~lastGuard'.out.fromCache)
    /\ (~ManagerSlotUsable /\ ManagerSlotUsable')
       => (IsManagerEnsure' /\ ~lastManager'.out.threw /\ ~lastManager'.out.fromCache)

C13_FailuresNeverCached == []C13_SlotKeptOnFailure /\ [][C13_SlotFilledBySuccess]_vars

\* A throwing guard call that found an outdated result in the slot.
C13_Witness ==
    /\ IsGuardEnsure /\ lastGuard.out.threw
    /\ lastGuard.pre.cache.set /\ cache = lastGuard.pre.cache
    /\ lastGuard.out.error = ErrBinding

\* C14: when installLicenseFromContent has accepted a text and written it to
\* the license location, the ensureLicensed call it makes does not answer from
\* the slot, and a result left in the slot was computed at the install from
\* the installed text.
C14_InstallInvalidatesCache ==
    (/\ IsGuardInstall
     /\ verifyLicense(lastGuard.content, lastGuard.pre.file, lastGuard.at).res.success)
    => (/\ licenseFile = LicenseFileOf(lastGuard.content)
        /\ ~lastGuard.out.fromCache
        /\ cache.set => (/\ lastCheck = lastGuard.at
                         /\ cache.data.durationDays = lastGuard.content.rec.durationDays))

\* C15: when LicenseManager.installLicense returns normally the license file
\* holds the installed text, cache is null and lastCheck is 0, and an
\* ensureLicensed call that follows validates the file anew; when it throws
\* because validation failed, the license file, cache and lastCheck are what
\* they were.
C15_InstallResetsSlot ==
    /\ (IsManagerInstall /\ ~lastManager.out.threw)
       => (/\ managerFile = saveLicense(lastManager.content)
           /\ managerCache = NullManagerCache /\ managerLastCheck = 0
           /\ ~ManagerSlotUsable)
    /\ (IsManagerInstall /\ lastManager.out.threw)
       => (/\ ~validateLicense(lastManager.content, lastManager.at).valid
           /\ lastManager.out.writes = 0
           /\ managerFile = lastManager.pre.file
           /\ managerCache = lastManager.pre.cache
           /\ managerLastCheck = lastManager.pre.lastCheck)

C15_NextCheckValidates ==
    (IsManagerInstall /\ ~lastManager.out.threw /\ IsManagerEnsure')
    => (~lastManager'.out.fromCache /\ lastManager'.out.reads = 1)

OtherGuardErrors ==
    {ErrKeyNotFound, ErrKeyInvalid, ErrBinding, ErrIncomplete, ErrNoPlugins,
     ErrInvalidTime}
    \cup {decryptLicense(env).error : env \in Envelopes}

\* The result verifyLicense gave the guard's last call for the license file.
GuardVerifyResult ==
    verifyLicense(lastGuard.pre.licenseFile.content, lastGuard.pre.file, lastGuard.at).res

\* C20: when an ensureLicensed call of the guard computes a result and
\* verifyLicense succeeds with daysRemaining <= 0, the call throws the expiry
\* error, which is none of the decode, binding or format errors, and leaves
\* the slot as it was; the expiry error is thrown in no other case.
C20_ExpirySurfaced ==
    /\ (/\ IsGuardEnsure /\ ~lastGuard.out.fromCache
        /\ lastGuard.pre.licenseFile.exists
        /\ GuardVerifyResult.success /\ GuardVerifyResult.data.daysRemaining <= 0)
       => (/\ lastGuard.out.threw
           /\ lastGuard.out.error = ErrKeyExpired
           /\ lastGuard.out.error \notin OtherGuardErrors
           /\ cache = lastGuard.pre.cache /\ lastCheck = lastGuard.pre.lastCheck)
    /\ (IsGuardEnsure /\ lastGuard.out.threw /\ lastGuard.out.error = ErrKeyExpired)
       => (GuardVerifyResult.success /\ GuardVerifyResult.data.daysRemaining <= 0)

\* A check on the last instant of a 90-day tier, with an outdated result in
\* the slot.
C20_Witness ==
    /\ IsGuardEnsure /\ lastGuard.out.threw
    /\ lastGuard.out.error = ErrKeyExpired
    /\ lastGuard.pre.cache.set
    /\ stateFile.activeTier = 90
    /\ lastGuard.at = Deadline(stateFile)

StatusFields == {"status", "daysRemaining", "expiresAt", "message"}

HasFlag(data) == Has(data, "success") \/ Has(data, "licensed")

\* C27: the status record of a licensed installation, from
\* LicenseManager.getLicenseStatus or as the data ensureLicensed returns,
\* carries a success or licensed flag, status, daysRemaining, expiresAt and
\* message, and the widget does not show it as expired.
C27_StableStatusShape ==
    /\ (IsManagerStatus /\ lastManager.out.value.valid)
       => LET data == getLicenseStatus(lastManager.pre.file, lastManager.at)
          IN  /\ HasFlag(data) /\ StatusFields \subseteq DOMAIN data
              /\ updateWidget(data).statusText # "Expired"
    /\ (IsGuardEnsure /\ ~lastGuard.out.threw)
       => LET data == lastGuard.out.value
          IN  /\ HasFlag(data) /\ StatusFields \subseteq DOMAIN data
              /\ updateWidget(data).statusText # "Expired"

\* C28: on every host getMachineFingerprint returns a value and does not
\* throw, whichever of the fields it reads the host cannot supply, and short
\* is the first 16 characters of full.
C28_FingerprintNeverFails ==
    probe.done => (/\ ~probe.out.threw
                   /\ Len(probe.out.full) = 4
                   /\ probe.out.short = SubSeq(probe.out.full, 1, 1))

\* The last guard call was an ensureLicensed that computed its result from a
\* license file holding a decodable license with fingerprint 'UNBOUND'.
UnboundChecked ==
    /\ IsGuardEnsure /\ ~lastGuard.out.fromCache
    /\ lastGuard.pre.licenseFile.exists
    /\ decryptLicense(lastGuard.pre.licenseFile.content).success
    /\ lastGuard.pre.licenseFile.content.rec.fingerprint = "UNBOUND"

\* durationDays of the license file of the last guard call, 90 if absent.
UnboundDays ==
    IF lastGuard.pre.licenseFile.content.rec.durationDays # 0
      THEN lastGuard.pre.licenseFile.content.rec.durationDays ELSE 90

\* The bypass reports a full term from the time of the call, caches it and
\* never the expiry error.
UnboundFullTerm ==
    /\ ~lastGuard.out.threw
    /\ lastGuard.out.value.daysRemaining = UnboundDays
    /\ lastGuard.out.value.expiresAt = lastGuard.at + UnboundDays * TicksPerDay
    /\ cache = Cached(lastGuard.out.value) /\ lastCheck = lastGuard.at

ColdCheck ==
    ensureLicensed(NullCache, 0, LicenseFileOf(lastGuard.content),
                   lastGuard.pre.file, lastGuard.at)

\* C31: installLicenseFromContent does not throw for a text that
\* ensureLicensed accepts as the content of the license file, with an empty
\* slot, the same state file and the same time.
C31_InstallAgreesWithCheck ==
    (IsGuardInstall /\ ~ColdCheck.threw) => ~lastGuard.out.threw

\* Product identifiers a license may carry: none, one that is not the
\* application's, the application's.
PluginIdChoices == {"", "p1", APP_PLUGIN_ID}

\* The last guard call was an ensureLicensed that computed its result from a
\* license file holding a decodable license.
FreshCheck ==
    /\ IsGuardEnsure /\ ~lastGuard.out.fromCache
    /\ lastGuard.pre.licenseFile.exists
    /\ decryptLicense(lastGuard.pre.licenseFile.content).success

\* What the last ensureLicensed call would have left and returned had the
\* license in the license file carried product identifier q.
WithPluginId(q) ==
    ensureLicensed(lastGuard.pre.cache, lastGuard.pre.lastCheck,
                   [lastGuard.pre.licenseFile EXCEPT !.content.rec.pluginId = q],
                   lastGuard.pre.file, lastGuard.at)

\* Two outcomes of ensureLicensed that differ at most in the product
\* identifier reported and recorded.
SameButProduct(e1, e2) ==
    /\ e1.threw = e2.threw /\ e1.error = e2.error
    /\ e1.cache.set = e2.cache.set /\ e1.lastCheck = e2.lastCheck
    /\ e1.value.daysRemaining = e2.value.daysRemaining
    /\ e1.value.currentTier = e2.value.currentTier
    /\ e1.value.expiresAt = e2.value.expiresAt
    /\ e1.value.status = e2.value.status
    /\ e1.file.exists = e2.file.exists /\ SameTier(e1.file, e2.file)

C33_RejectedInstallWritesNothing ==
    (IsGuardInstall
     /\ ~verifyLicense(lastGuard.content, lastGuard.pre.file, lastGuard.at).res.success)
    => (/\ lastGuard.out.threw
        /\ licenseFile = lastGuard.pre.licenseFile
        /\ stateFile = lastGuard.pre.file
        /\ cache = lastGuard.pre.cache /\ lastCheck = lastGuard.pre.lastCheck)

\* C34: installLicenseFromContent returns normally only with the supplied
\* text as the content of the license file, and when it throws the license
\* file and the state file are as they were before the call.
C34_InstallAllOrNothing ==
    IsGuardInstall
    => (/\ ~lastGuard.out.threw => licenseFile = LicenseFileOf(lastGuard.content)
        /\ lastGuard.out.threw
             => (/\ licenseFile = lastGuard.pre.licenseFile
                 /\ stateFile = lastGuard.pre.file))

----------------------------------------------------------------------------
(* Properties of the codec *)

ErrIntegrity == "License decryption failed: License integrity check failed"

\* C16: for a text produced by encryptLicense whose ciphertext or salt field
\* was changed while the digest was left alone, decryptLicense fails with the
\* integrity error (the digest test comes before key derivation and
\* decryption); and decryptLicense never returns success with a record other
\* than the one encrypted.
C16_TamperDetected ==
    /\ (opened.done /\ wire.tamper \in SaltTampers \cup CipherTampers \cup {"shift"})
       => (~opened.res.success /\ opened.res.error = ErrIntegrity)
    /\ (opened.done /\ opened.res.success) => opened.res.data = wire.rec

\* C17: decryptLicense applied to the text encryptLicense produced for a
\* record, bare or in the form saveLicenseFile writes (marker lines, 64
\* characters to a line), returns success with data equal to the record.
C17_CodecRoundTrip ==
    (opened.done /\ wire.tamper = "none")
    => (opened.res.success /\ opened.res.data = wire.rec)

C17_Witness ==
    /\ opened.done /\ wire.tamper = "none" /\ wire.saved
    /\ Len(wire.text) = 8
    /\ opened.res.success /\ opened.res.data.fingerprint = "UNBOUND"

\* The last call was verifyLicense, from no state file, on the text a
\* generator operation issued without a fingerprint option, with this
\* machine's full fingerprint, or for an order.
IssuedVerified ==
    /\ IsVerify /\ wire.text # <<>> /\ last.env = ReadEnvelope(wire.text)
    /\ Unset(last.pre)
    /\ wire.rec.fingerprint \in {"", MachineFull, "UNBOUND"}

\* C35: verifyLicense, from an unset state on the issuing machine, accepts
\* every text the generator's operations issue without a fingerprint option,
\* with this machine's full fingerprint, or for an order: the text decodes to
\* the record issued, passes the binding and required-field checks, and the
\* persisted tier is the record's durationDays.
C35_GeneratorVerifierCompatible ==
    IssuedVerified
    => (/\ Decoded /\ Rec = wire.rec
        /\ last.res.success
        /\ stateFile.activeTier = wire.rec.durationDays
        /\ last.res.data.currentTier = wire.rec.durationDays)

----------------------------------------------------------------------------
(* Properties of calls in flight *)

\* The calls in flight that have returned.
Returned == {i \in CallIds : flight.calls[i].pc = "done"}

\* The state files that running the returned calls one after another, in some
\* order, from the state file the first of them found, can leave.
SerialOutcomes ==
    {RunInOrder(flight.base, [k \in DOMAIN o |-> flight.calls[o[k]].env], now) :
         o \in Orders(Returned)}

\* C21: with several verifyLicense calls in flight in one process, no call
\* reads or writes the state file between another call's read and that call's
\* write, no call is suspended between its read and its write, and when all
\* calls have returned the state file is one that running them one after
\* another in some order leaves.
C21_ReconciliationAtomic ==
    /\ ~flight.interleaved
    /\ flight.open = {}
    /\ AllReturned => stateFile \in SerialOutcomes

\* Two calls in flight at once, for different products, have both registered.
C21_Witness ==
    /\ Returned = CallIds
    /\ flight.calls[1].env.rec.type # flight.calls[2].env.rec.type
    /\ flight.base.activatedPlugins = <<>>
    /\ Len(stateFile.activatedPlugins) = 2
    /\ stateFile # RunInOrder(flight.base, <<flight.calls[1].env>>, now)
    /\ stateFile # RunInOrder(flight.base, <<flight.calls[2].env>>, now)

\* What call i returned, computed from the state file as it read it.
CallResult(i) == verifyLicense(flight.calls[i].env, flight.calls[i].seen, now).res

\* The product identifier call i registers.
CallProduct(i) == ConvertLegacy(flight.calls[i].env.rec).pluginId

\* C36: when processes sharing the state file have each run verifyLicense,
\* all calls have returned success and two of them were for different
\* products, activatedPlugins holds the product of every call and the state
\* file is one that running the calls one after another leaves.
C36_NoLostActivation ==
    (/\ AllReturned /\ \A i \in Returned : CallResult(i).success
     /\ \E i, j \in Returned : CallProduct(i) # CallProduct(j))
    => (/\ \A i \in Returned : Includes(stateFile.activatedPlugins, CallProduct(i))
        /\ stateFile \in SerialOutcomes)

ErrUnexpectedToken == "License decryption failed: Unexpected token"

\* C22: decryptLicense answers a text that is no package with one error, a
\* package whose digest does not match with the integrity error, and a
\* package that passes the digest test but does not decrypt to license JSON
\* with an error that is neither of the two.
C22_DecodeFailuresDistinct ==
    opened.done =>
      LET env == ReadEnvelope(wire.text)
      IN  /\ ~env.structure
               => (~opened.res.success /\ opened.res.error = ErrUnexpectedToken)
          /\ (env.structure /\ ~env.hashOk)
               => (~opened.res.success /\ opened.res.error = ErrIntegrity)
          /\ (env.structure /\ env.hashOk /\ ~env.plainOk)
               => (/\ ~opened.res.success
                   /\ opened.res.error \notin {ErrUnexpectedToken, ErrIntegrity})

====
